---- MODULE Spec2Model ----
(***************************************************************************)
(* A model of the ledger journal lexer and parser: the moo rule table,     *)
(* the whitespace-attaching Lexer, the Token class, the parser primitives, *)
(* the grammar productions of parse-node.ts and the File.parse loop.       *)
(* Strings are sequences of one-character strings; offsets are 0-based as  *)
(* in the source, sequence indexes are 1-based.                            *)
(***************************************************************************)
EXTENDS Integers, Sequences, FiniteSets, TLC

VARIABLES input, lexer, out, pc, children, diagnostics, accounts, payees, stuck, before

vars == <<input, lexer, out, pc, children, diagnostics, accounts, payees, stuck, before>>

(***************************************************************************)
(* Bounds of the model.                                                    *)
(***************************************************************************)
MaxLexLen == 4
MaxChunks == 4
MaxTail == 2
MaxPeekLen == 3
MaxEofCalls == 2
MaxSteps == 3

(***************************************************************************)
(* Small helpers on sequences.                                             *)
(***************************************************************************)
RECURSIVE Flatten(_)
Flatten(ss) == IF ss = <<>> THEN <<>> ELSE Head(ss) \o Flatten(Tail(ss))

SeqsUpTo(S, n) == UNION {[1..k -> S] : k \in 0..n}

Min2(a, b) == IF a < b THEN a ELSE b

\* the element of a set that has one element; Bind({e : x \in {v}}) is e with
\* x bound to the value of v, which is evaluated once ("let x = v" of the source)
Bind(S) == CHOOSE x \in S : TRUE

(***************************************************************************)
(* Character classes used by the rule table.                               *)
(***************************************************************************)
IsDigit(c) == c \in {"0", "1", "2", "3", "4", "5", "6", "7", "8", "9"}

IsLetter(c) == c \in {"a", "b", "c", "d", "e", "f", "g", "h", "i", "j", "k", "l", "m",
                      "n", "o", "p", "q", "r", "s", "t", "u", "v", "w", "x", "y", "z",
                      "A", "B", "C", "D", "E", "F", "P", "T", "X"}

IsWsChar(c) == c \in {" ", "\t"}

\* the characters the regular expression class \s matches
IsJsSpace(c) == c \in {" ", "\t", "\n", "\r", "\f"}

SingleCharType(c) ==
  CASE c = "=" -> "equal"
    [] c = "~" -> "tilde"
    [] c = "(" -> "lparen"
    [] c = ")" -> "rparen"
    [] c = "{" -> "lbrace"
    [] c = "}" -> "rbrace"
    [] c = "[" -> "lbracket"
    [] c = "]" -> "rbracket"
    [] c = "-" -> "hyphen"
    [] c = "/" -> "slash"
    [] c = "*" -> "star"
    [] c = "!" -> "bang"
    [] c = ":" -> "colon"
    [] c = "@" -> "at"
    [] OTHER -> "none"

\* first index >= i at which the run of ws / digits / letters / non-newlines ends
RECURSIVE WsEnd(_, _)
WsEnd(buf, i) == IF i <= Len(buf) /\ IsWsChar(buf[i]) THEN WsEnd(buf, i + 1) ELSE i

RECURSIVE DigitsEnd(_, _)
DigitsEnd(buf, i) == IF i <= Len(buf) /\ IsDigit(buf[i]) THEN DigitsEnd(buf, i + 1) ELSE i

RECURSIVE LettersEnd(_, _)
LettersEnd(buf, i) == IF i <= Len(buf) /\ IsLetter(buf[i]) THEN LettersEnd(buf, i + 1) ELSE i

RECURSIVE LineEnd(_, _)
LineEnd(buf, i) == IF i <= Len(buf) /\ buf[i] # "\n" THEN LineEnd(buf, i + 1) ELSE i

\* /"[^"\n]*"/ : index just after the closing quote, or 0 when the rule does not match
RECURSIVE StringEnd(_, _)
StringEnd(buf, i) ==
  IF i > Len(buf) \/ buf[i] = "\n" THEN 0
  ELSE IF buf[i] = "\"" THEN i + 1
  ELSE StringEnd(buf, i + 1)

\* /\d+(?:[.,]\d+)*(?:[.,]\d+)?/ : i is just after a run of digits
RECURSIVE NumberEnd(_, _)
NumberEnd(buf, i) ==
  IF i + 1 <= Len(buf) /\ buf[i] \in {".", ","} /\ IsDigit(buf[i + 1])
  THEN NumberEnd(buf, DigitsEnd(buf, i + 1))
  ELSE i

(***************************************************************************)
(* LEDGER_RULES: the rule that matches at index i (first match wins) and   *)
(* the index just after the match.  "error" when no rule matches.          *)
(***************************************************************************)
LEDGER_RULES(buf, i) ==
  LET c == buf[i]
      lineStart == i = 1 \/ buf[i - 1] \in {"\n", "\r"}
  IN  IF c = "\n" THEN [type |-> "newline", end |-> i + 1]
      ELSE IF c = "\r" /\ i < Len(buf) /\ buf[i + 1] = "\n" THEN [type |-> "newline", end |-> i + 2]
      ELSE IF IsWsChar(c) THEN [type |-> "ws", end |-> WsEnd(buf, i)]
      ELSE IF c = ";" \/ (lineStart /\ c \in {";", "#", "%", "*", "|"})
        THEN [type |-> "comment", end |-> LineEnd(buf, i + 1)]
      ELSE IF c = "\"" /\ StringEnd(buf, i + 1) # 0 THEN [type |-> "string", end |-> StringEnd(buf, i + 1)]
      ELSE IF IsDigit(c) THEN [type |-> "number", end |-> NumberEnd(buf, DigitsEnd(buf, i))]
      ELSE IF SingleCharType(c) # "none" THEN [type |-> SingleCharType(c), end |-> i + 1]
      ELSE IF IsLetter(c) THEN [type |-> "identifier", end |-> LettersEnd(buf, i)]
      ELSE IF ~IsJsSpace(c) THEN [type |-> "symbol", end |-> i + 1]
      ELSE [type |-> "error", end |-> i]

(***************************************************************************)
(* Raw tokens and the moo lexer.  NoRaw stands for undefined.              *)
(***************************************************************************)
NoRaw == [type |-> "none", text |-> <<>>, offset |-> 0]

\* moo.Lexer.next(): the raw token at the current index, undefined at the end
\* of the buffer; an input no rule matches makes next() throw
mooNext(lx) ==
  IF lx.thrown \/ lx.index > Len(lx.buffer) THEN [raw |-> NoRaw, lx |-> lx]
  ELSE Bind({IF m.type = "error" THEN [raw |-> NoRaw, lx |-> [lx EXCEPT !.thrown = TRUE]]
         ELSE [raw |-> [type |-> m.type,
                        text |-> SubSeq(lx.buffer, lx.index, m.end - 1),
                        offset |-> lx.index - 1],
               lx |-> [lx EXCEPT !.index = m.end]]
      : m \in {LEDGER_RULES(lx.buffer, lx.index)}})

(***************************************************************************)
(* Token.  NoTok stands for undefined.                                     *)
(***************************************************************************)
NoTok == [type |-> "none", text |-> <<>>, leadingSpace |-> <<>>, trailingSpace |-> <<>>, offset |-> 0]

Token(from, leadingSpace, trailingSpace) ==
  [type |-> from.type, text |-> from.text, leadingSpace |-> leadingSpace,
   trailingSpace |-> trailingSpace, offset |-> from.offset]

virtual(type, offset, leadingSpace) ==
  [type |-> type, text |-> <<>>, leadingSpace |-> leadingSpace, trailingSpace |-> <<>>,
   offset |-> offset]

innerLength(t) == Len(t.text)
outerText(t) == t.leadingSpace \o t.text \o t.trailingSpace
outerLength(t) == Len(t.text) + Len(t.leadingSpace) + Len(t.trailingSpace)

span(t) == <<t.offset + Len(t.leadingSpace), t.offset + Len(t.leadingSpace) + innerLength(t)>>

\* /\t| {2,}/.test(s)
isHardSpace(s) ==
  \E i \in 1..Len(s) : s[i] = "\t" \/ (i < Len(s) /\ s[i] = " " /\ s[i + 1] = " ")

beginsWithSpace(t) == Len(t.leadingSpace) > 0
endsWithSpace(t) == Len(t.trailingSpace) > 0
beginsWithHardSpace(t) == isHardSpace(t.leadingSpace)
endsWithHardSpace(t) == isHardSpace(t.trailingSpace)

(***************************************************************************)
(* Lexer.                                                                  *)
(***************************************************************************)
NewLexer(s) ==
  [buffer |-> s, index |-> 1, peekRaw |-> NoRaw, lookahead |-> NoTok, lookbehind |-> NoTok,
   thrown |-> FALSE, count |-> 0]

\* an eof token that drops the whitespace read before the end of the input
eofTokenNoLeading(lx, leadingSpace) ==
  virtual("eof", IF lx.lookbehind.type # "none" THEN span(lx.lookbehind)[1] ELSE 0, <<>>)

eofToken(lx, leadingSpace) ==
  virtual("eof", IF lx.lookbehind.type # "none" THEN span(lx.lookbehind)[1] ELSE 0,
          leadingSpace.text)

\* getNext(): the lexer after the first raw token was read (from _peek or moo)
getNextFirst(lx) ==
  IF lx.peekRaw.type # "none" THEN [raw |-> lx.peekRaw, lx |-> lx] ELSE mooNext(lx)

\* getNext() that drops the whitespace following a token
getNextDropTrailing(lx) ==
  Bind({IF m1.raw.type = "none" THEN [tok |-> eofToken(m1.lx, NoRaw), lx |-> m1.lx]
    ELSE Bind({IF m2.raw.type = "none"
      THEN [tok |-> eofToken(m2.lx, IF m1.raw.type = "ws" THEN m1.raw ELSE NoRaw), lx |-> m2.lx]
      ELSE Bind({[tok |-> Token(m2.raw, IF m1.raw.type = "ws" THEN m1.raw.text ELSE <<>>, <<>>),
         lx |-> [m3.lx EXCEPT !.peekRaw = IF m3.raw.type = "ws" THEN NoRaw ELSE m3.raw]]
          : m3 \in {mooNext(m2.lx)}})
        : m2 \in {IF m1.raw.type = "ws" THEN mooNext(m1.lx) ELSE m1}})
      : m1 \in {getNextFirst(lx)}})

\* getNext() that keeps the whitespace following a token in _peek, so that it
\* becomes the leading whitespace of the token after it
getNextKeepsWs(lx) ==
  Bind({IF m1.raw.type = "none" THEN [tok |-> eofToken(m1.lx, NoRaw), lx |-> m1.lx]
    ELSE Bind({IF m2.raw.type = "none"
      THEN [tok |-> eofToken(m2.lx, IF m1.raw.type = "ws" THEN m1.raw ELSE NoRaw),
            lx |-> [m2.lx EXCEPT !.peekRaw = NoRaw]]
      ELSE Bind({[tok |-> Token(m2.raw, IF m1.raw.type = "ws" THEN m1.raw.text ELSE <<>>, <<>>),
         lx |-> [m3.lx EXCEPT !.peekRaw = m3.raw]]
          : m3 \in {mooNext(m2.lx)}})
        : m2 \in {IF m1.raw.type = "ws" THEN mooNext([m1.lx EXCEPT !.peekRaw = NoRaw]) ELSE m1}})
      : m1 \in {getNextFirst(lx)}})

\* m1 is the first raw token read, m2 the first that is not ws, m3 the raw token
\* after it, which becomes the trailing space or is kept in _peek
getNext(lx) ==
  Bind({IF m1.raw.type = "none" THEN [tok |-> eofToken(m1.lx, NoRaw), lx |-> m1.lx]
    ELSE Bind({IF m2.raw.type = "none"
      THEN [tok |-> eofToken(m2.lx, IF m1.raw.type = "ws" THEN m1.raw ELSE NoRaw), lx |-> m2.lx]
      ELSE Bind({[tok |-> Token(m2.raw, IF m1.raw.type = "ws" THEN m1.raw.text ELSE <<>>,
                       IF m3.raw.type = "ws" THEN m3.raw.text ELSE <<>>),
         lx |-> [m3.lx EXCEPT !.peekRaw = IF m3.raw.type = "ws" THEN NoRaw ELSE m3.raw]]
          : m3 \in {mooNext(m2.lx)}})
        : m2 \in {IF m1.raw.type = "ws" THEN mooNext(m1.lx) ELSE m1}})
      : m1 \in {getNextFirst(lx)}})

\* a peek() that reads a token on every call
LexerPeekUncached(lx) ==
  Bind({[g.lx EXCEPT !.lookahead = g.tok]
      : g \in {getNext(lx)}})

\* Lexer.peek(): the lexer with its lookahead materialised
LexerPeek(lx) ==
  IF lx.lookahead.type # "none" THEN lx
  ELSE Bind({[g.lx EXCEPT !.lookahead = g.tok]
      : g \in {getNext(lx)}})

\* Lexer.next(): the token returned and the lexer after the call; count is the
\* number of tokens other than eof that next() has returned so far
LexerNext(lx) ==
  IF lx.lookahead.type # "none"
  THEN [tok |-> lx.lookahead,
        lx |-> [lx EXCEPT !.lookahead = NoTok, !.lookbehind = lx.lookahead,
                          !.count = IF lx.lookahead.type = "eof" THEN @ ELSE @ + 1]]
  ELSE Bind({[tok |-> g.tok,
          lx |-> [g.lx EXCEPT !.lookbehind = g.tok,
                              !.count = IF g.tok.type = "eof" THEN @ ELSE @ + 1]]
      : g \in {getNext(lx)}})

LexerHasNext(lx) == LexerPeek(lx).lookahead.type # "eof"

(***************************************************************************)
(* Spans, parse errors, groups and the symbol table.                       *)
(***************************************************************************)
NoSpan == <<>>
None == [type |-> "none"]
Infinity == 1000000

RECURSIVE combineLoop(_, _, _)
combineLoop(spans, min, max) ==
  IF spans = <<>> THEN <<min, max>>
  ELSE LET s == Head(spans)
       IN  IF s = NoSpan THEN combineLoop(Tail(spans), min, max)
           ELSE combineLoop(Tail(spans),
                            IF s[1] < min THEN s[1] ELSE min,
                            IF s[2] > max THEN s[2] ELSE max)

\* combineSpans returning the maximum before the minimum
combineSpansSwapped(spans) ==
  LET r == combineLoop(spans, Infinity, 0 - Infinity) IN <<r[2], r[1]>>

\* combineSpans(...spans): undefined spans (NoSpan) are filtered out
combineSpans(spans) == combineLoop(spans, Infinity, 0 - Infinity)

optSpan(t) == IF t.type = "none" THEN NoSpan ELSE span(t)

unexpectedToken(saw, expected) ==
  [code |-> "UNEXPECTED_TOKEN", span |-> span(saw), expected |-> expected]
unexpectedEOF(sp, expected) == [code |-> "UNEXPECTED_EOF", span |-> sp, expected |-> expected]
leadingSpace(saw) == [code |-> "LEADING_SPACE", span |-> span(saw), expected |-> {}]
invalidInteger(saw) == [code |-> "INVALID_INTEGER", span |-> span(saw), expected |-> {}]
invalidAccount(saw) == [code |-> "INVALID_ACCOUNT", span |-> span(saw), expected |-> {}]

Group(tokens) == [type |-> "group", tokens |-> tokens]
GroupSpan(g) == combineSpans(<<span(g.tokens[1]), span(g.tokens[Len(g.tokens)])>>)
optGroupSpan(g) == IF g.type = "none" THEN NoSpan ELSE GroupSpan(g)
GroupConcat(g, h) == Group(g.tokens \o h.tokens)
GroupOuterText(g) == Flatten([i \in 1..Len(g.tokens) |-> outerText(g.tokens[i])])

RECURSIVE trimStart(_)
trimStart(s) == IF s # <<>> /\ IsJsSpace(Head(s)) THEN trimStart(Tail(s)) ELSE s

RECURSIVE trimEnd(_)
trimEnd(s) ==
  IF s # <<>> /\ IsJsSpace(s[Len(s)]) THEN trimEnd(SubSeq(s, 1, Len(s) - 1)) ELSE s

GroupInnerText(g) ==
  LET n == Len(g.tokens)
  IN  IF n < 2 THEN g.tokens[1].text
      ELSE Flatten([i \in 1..n |->
             IF i = 1 THEN trimStart(outerText(g.tokens[i]))
             ELSE IF i = n THEN trimEnd(outerText(g.tokens[i]))
             ELSE outerText(g.tokens[i])])

\* a symbol table is the list of its entries in insertion order
SymbolTableHas(table, key) == \E i \in 1..Len(table) : table[i].key = key

\* SymbolTable.add: throws on a key that is already present
SymbolTableAdd(table, key, sp) ==
  IF SymbolTableHas(table, key) THEN [table |-> table, threw |-> TRUE]
  ELSE [table |-> Append(table, [key |-> key, span |-> sp]), threw |-> FALSE]

(***************************************************************************)
(* Results.  A result carries the parser state after the step that made    *)
(* it: p = [lex, accounts, payees, threw, stuck].                          *)
(***************************************************************************)
Ok(v, p) == [ok |-> TRUE, val |-> v, err |-> None, p |-> p]
Err(e, p) == [ok |-> FALSE, val |-> None, err |-> e, p |-> p]

\* the error of a loop iteration that consumed no token (not a ParseError)
StuckError == [code |-> "STUCK", span |-> <<0, 0>>, expected |-> {}]

NewParser(lx) ==
  [lex |-> lx, accounts |-> <<>>, payees |-> <<>>, threw |-> FALSE, stuck |-> FALSE]

(***************************************************************************)
(* Parser primitives.                                                      *)
(***************************************************************************)
peekP(p) == [p EXCEPT !.lex = LexerPeek(p.lex)]
peek(p) == LexerPeek(p.lex).lookahead
next(p) == Bind({[tok |-> r.tok, p |-> [p EXCEPT !.lex = r.lx]]
    : r \in {LexerNext(p.lex)}})
hasNext(p) == peek(p).type # "eof"
previous(p) == p.lex.lookbehind
peekType(p, kinds) == peek(p).type \in kinds
lineHasNext(p) == peek(p).type \notin {"eof", "newline"}

nextIsIndented(p) ==
  Bind({/\ pk.type # "eof"
    /\ previous(p).type \in {"none", "newline"}
    /\ (endsWithSpace(previous(p)) \/ beginsWithSpace(pk))
      : pk \in {peek(p)}})

skipIf(p, kinds) ==
  Bind({IF peekType(q, kinds) THEN Bind({Ok(n.tok, n.p)
      : n \in {next(q)}}) ELSE Ok(NoTok, q)
      : q \in {peekP(p)}})

expect(p, kinds) ==
  Bind({IF n.tok.type \in kinds THEN Ok(n.tok, n.p)
    ELSE IF n.tok.type = "eof" THEN Err(unexpectedEOF(span(n.tok), kinds), n.p)
    ELSE Err(unexpectedToken(n.tok, kinds), n.p)
      : n \in {next(p)}})

expectIdentifier(p, name) ==
  Bind({IF ~r.ok THEN r
    ELSE IF r.val.text # name THEN Err(unexpectedToken(r.val, {"identifier"}), r.p)
    ELSE r
      : r \in {expect(p, {"identifier"})}})

skipIfIdentifier(p, name) ==
  Bind({IF peek(q).type = "identifier" /\ peek(q).text = name
    THEN Bind({Ok(n.tok, n.p)
        : n \in {next(q)}})
    ELSE Ok(NoTok, q)
      : q \in {peekP(p)}})

expectInteger(p) ==
  Bind({IF ~r.ok THEN r
    ELSE IF \E i \in 1..Len(r.val.text) : ~IsDigit(r.val.text[i])
      THEN Err(invalidInteger(r.val), r.p)
    ELSE r
      : r \in {expect(p, {"number"})}})

expectEndOfLine(p) == expect(p, {"newline", "eof"})

expectHardSpace(p) ==
  Bind({IF endsWithHardSpace(previous(q)) \/ beginsWithHardSpace(peek(q)) THEN Ok(None, q)
    ELSE Err(unexpectedToken(peek(q), {}), q)
      : q \in {peekP(p)}})

inlineSpace(p) ==
  Bind({IF ~lineHasNext(q) \/ endsWithSpace(previous(q)) \/ beginsWithSpace(peek(q))
    THEN Ok(None, q)
    ELSE Err(unexpectedToken(peek(q), {}), q)
      : q \in {peekP(p)}})

RECURSIVE slurpLoop(_, _, _)
slurpLoop(p, kinds, acc) ==
  Bind({IF peek(q).type \in (kinds \cup {"newline", "eof"}) THEN [tokens |-> acc, p |-> q]
    ELSE Bind({Bind({slurpLoop(n.p, kinds, acc2)
        : acc2 \in {Append(acc, n.tok)}})
        : n \in {next(q)}})
      : q \in {peekP(p)}})

emptySlurp(p, kinds) ==
  IF peek(p).type = "eof" THEN Err(unexpectedEOF(span(peek(p)), kinds), p)
  ELSE Err(unexpectedToken(peek(p), kinds), p)

slurpUntil(p, kinds) ==
  Bind({IF s.tokens = <<>> THEN emptySlurp(s.p, kinds) ELSE Ok(Group(s.tokens), s.p)
      : s \in {slurpLoop(p, kinds, <<>>)}})

slurp(p) == slurpUntil(p, {"newline"})

slurpOpt(p) ==
  Bind({IF s.tokens = <<>> THEN Ok(None, s.p) ELSE Ok(Group(s.tokens), s.p)
      : s \in {slurpLoop(p, {"newline"}, <<>>)}})

RECURSIVE hardSpaceLoop(_, _)
hardSpaceLoop(p, acc) ==
  Bind({IF ~lineHasNext(q) \/ (acc # <<>> /\ beginsWithHardSpace(peek(q)))
    THEN [tokens |-> acc, p |-> q]
    ELSE Bind({Bind({IF endsWithHardSpace(n.tok) THEN [tokens |-> acc2, p |-> n.p]
             ELSE hardSpaceLoop(n.p, acc2)
        : acc2 \in {Append(acc, n.tok)}})
        : n \in {next(q)}})
      : q \in {peekP(p)}})

slurpUntilHardSpace(p) ==
  Bind({IF s.tokens = <<>> THEN Err(invalidAccount(peek(s.p)), s.p) ELSE Ok(Group(s.tokens), s.p)
      : s \in {hardSpaceLoop(p, <<>>)}})

\* untilSequence(...words): val = <<body group or None, the matched identifier tokens>>
RECURSIVE untilSequenceLoop(_, _, _, _)
untilSequenceLoop(p, words, body, matched) ==
  IF Len(matched) = Len(words)
  THEN Ok([body |-> IF body = <<>> THEN None ELSE Group(body), matched |-> matched], p)
  ELSE Bind({IF n.tok.type = "eof" THEN Err(unexpectedEOF(span(n.tok), {"identifier"}), n.p)
         ELSE IF n.tok.type = "identifier" /\ n.tok.text = words[Len(matched) + 1]
           THEN Bind({untilSequenceLoop(n.p, words, body, m)
               : m \in {Append(matched, n.tok)}})
         ELSE IF n.tok.type = "identifier" /\ n.tok.text = words[1]
           THEN Bind({untilSequenceLoop(n.p, words, b, <<n.tok>>)
               : b \in {body \o matched}})
         ELSE Bind({untilSequenceLoop(n.p, words, b, <<>>)
             : b \in {(body \o matched) \o <<n.tok>>}})
      : n \in {next(p)}})

untilSequence(p, words) == untilSequenceLoop(p, words, <<>>, <<>>)

declarePayee(p, name, sp) ==
  IF SymbolTableHas(p.payees, name) THEN p
  ELSE LET a == SymbolTableAdd(p.payees, name, sp)
       IN  [p EXCEPT !.payees = a.table, !.threw = @ \/ a.threw]

\* declareAccount that stores the span of the latest declaration
declareAccountLatest(p, name, sp) ==
  [p EXCEPT !.accounts =
     IF SymbolTableHas(@, name)
     THEN [i \in 1..Len(@) |-> IF @[i].key = name THEN [key |-> name, span |-> sp] ELSE @[i]]
     ELSE Append(@, [key |-> name, span |-> sp])]

declareAccount(p, name, sp) ==
  IF SymbolTableHas(p.accounts, name) THEN p
  ELSE LET a == SymbolTableAdd(p.accounts, name, sp)
       IN  [p EXCEPT !.accounts = a.table, !.threw = @ \/ a.threw]

\* synchronize(err): the parser state after the panic-mode skip (err is pushed
\* by the caller of this operator)
RECURSIVE synchronize(_)
synchronize(p) ==
  Bind({IF ~hasNext(q) \/ (previous(q).type \in {"none", "newline"} /\ ~nextIsIndented(q))
    THEN q
    ELSE Bind({synchronize(n.p)
        : n \in {next(q)}})
      : q \in {peekP(p)}})

(***************************************************************************)
(* Grammar productions (parse-node.ts).  Each takes the parser state and   *)
(* returns a result holding the node built and the parser state after it.  *)
(***************************************************************************)
SurroundedBy(open, contents, close) ==
  [type |-> "surroundedBy", open |-> open, contents |-> contents, close |-> close]

SurroundedByParse(p, open, close) ==
  Bind({IF ~r1.ok THEN r1
    ELSE Bind({IF ~r2.ok THEN r2
      ELSE Bind({IF ~r3.ok THEN r3
        ELSE Ok(SurroundedBy(r1.val, r2.val, r3.val), r3.p)
          : r3 \in {expect(r2.p, {close})}})
        : r2 \in {slurpUntil(r1.p, {close})}})
      : r1 \in {expect(p, {open})}})

\* the closing parenthesis for either opening bracket
invertBraceParen(open) == "rparen"

invertBrace(open) == IF open = "lbracket" THEN "rbracket" ELSE "rparen"

AccountRef(name) == [type |-> "accountRef", name |-> name]

AccountRefParse(p0) ==
  Bind({IF peek(p).type \in {"lparen", "lbracket"}
    THEN Bind({IF ~r1.ok THEN r1
      ELSE Bind({IF ~r2.ok THEN r2
        ELSE Bind({IF ~r3.ok THEN r3
          ELSE Ok(AccountRef(SurroundedBy(r1.val, r2.val, r3.val)), r3.p)
            : r3 \in {expect(r2.p, {invertBrace(peek(p).type)})}})
          : r2 \in {slurpUntil(r1.p, {invertBrace(peek(p).type)})}})
        : r1 \in {expect(p, {"lparen", "lbracket"})}})
    ELSE Bind({IF ~r.ok THEN r ELSE Ok(AccountRef(r.val), r.p)
        : r \in {slurpUntilHardSpace(p)}})
      : p \in {peekP(p0)}})

accountName(a) ==
  IF a.name.type = "surroundedBy" THEN GroupInnerText(a.name.contents)
  ELSE GroupInnerText(a.name)

Payee(group) == [type |-> "payee", group |-> group]

\* the while loop of Payee.parse
RECURSIVE PayeeLoop(_, _)
PayeeLoop(p0, group) ==
  Bind({IF lineHasNext(p) /\ ~peekType(p, {"comment"})
    THEN Bind({IF ~nextChunk.ok THEN nextChunk
      ELSE IF nextChunk.p.lex.count = p.lex.count
        THEN Err(StuckError, [nextChunk.p EXCEPT !.stuck = TRUE])
      ELSE Bind({PayeeLoop(nextChunk.p, g)
          : g \in {GroupConcat(group, nextChunk.val)}})
        : nextChunk \in {slurpUntilHardSpace(p)}})
    ELSE Ok(group, p)
      : p \in {peekP(p0)}})

PayeeParse(p) ==
  Bind({IF ~r1.ok THEN r1
    ELSE Bind({IF ~r2.ok THEN r2
      ELSE Ok(Payee(r2.val), declarePayee(r2.p, GroupInnerText(r2.val), GroupSpan(r2.val)))
        : r2 \in {PayeeLoop(r1.p, r1.val)}})
      : r1 \in {slurpUntilHardSpace(p)}})

DateNode(raw) == [type |-> "date", raw |-> raw]

\* a second separator of either kind
DateSecondSeparatorAny(p, sep) == skipIf(p, {"slash", "hyphen"})

\* (_, sep) => parser.skipIf(sep.type)
DateSecondSeparator(p, sep) == skipIf(p, {sep.type})

DateNodeParse(p) ==
  Bind({IF ~r1.ok THEN r1
    ELSE Bind({IF ~r2.ok THEN r2
      ELSE Bind({IF ~r3.ok THEN r3
        ELSE Bind({Bind({IF ~r5.ok THEN r5
            ELSE Ok(DateNode(Group(SelectSeq(<<r1.val, r2.val, r3.val, r4.val, r5.val>>,
                                             LAMBDA t : t.type # "none"))), r5.p)
            : r5 \in {IF r4.val.type # "none" THEN expectInteger(r4.p) ELSE Ok(NoTok, r4.p)}})
            : r4 \in {DateSecondSeparator(r3.p, r2.val)}})
          : r3 \in {expectInteger(r2.p)}})
        : r2 \in {expect(r1.p, {"slash", "hyphen"})}})
      : r1 \in {expectInteger(p)}})

Amount(amount, minus, preCommodity, postCommodity) ==
  [type |-> "amount", amount |-> amount, minus |-> minus, preCommodity |-> preCommodity,
   postCommodity |-> postCommodity]

AmountStops == {"hyphen", "number", "comment"}

\* Amount.parse after its test for a hard space, reading a commodity after the
\* number as well when one was read before it
AmountParseBodyBoth(p) ==
  Bind({IF peekType(minus.p, {"number"})
    THEN Bind({Bind({Ok(Amount(amount.tok, minus.val, None,
                               IF post.ok THEN post.val ELSE None), post.p)
        : post \in {slurpUntil(amount.p, AmountStops)}})
        : amount \in {next(minus.p)}})
    ELSE IF ~peekType(minus.p, {"newline", "comment"}) /\ hasNext(minus.p)
    THEN Bind({Bind({Bind({IF ~num.ok THEN num
          ELSE Bind({Ok(Amount(num.val, minus2.val, IF pre.ok THEN pre.val ELSE None,
                               IF post.ok THEN post.val ELSE None), post.p)
              : post \in {slurpUntil(num.p, AmountStops)}})
        : num \in {expect(minus2.p, {"number"})}})
        : minus2 \in {IF minus.val.type # "none" THEN Ok(minus.val, pre.p)
                      ELSE skipIf(pre.p, {"hyphen"})}})
        : pre \in {slurpUntil(minus.p, AmountStops)}})
    ELSE Bind({IF ~amt.ok THEN amt ELSE Ok(Amount(amt.val, minus.val, None, None), amt.p)
        : amt \in {expect(minus.p, {"number"})}})
      : minus \in {skipIf(p, {"hyphen"})}})

\* Amount.parse after its test for a hard space
AmountParseBody(p) ==
  Bind({IF peekType(minus.p, {"number"})
    THEN Bind({Bind({Ok(Amount(amount.tok, minus.val, None,
                               IF post.ok THEN post.val ELSE None), post.p)
        : post \in {slurpUntil(amount.p, AmountStops)}})
        : amount \in {next(minus.p)}})
    ELSE IF ~peekType(minus.p, {"newline", "comment"}) /\ hasNext(minus.p)
    THEN Bind({Bind({Bind({IF ~num.ok THEN num
          ELSE Ok(Amount(num.val, minus2.val, IF pre.ok THEN pre.val ELSE None, None),
                  num.p)
        : num \in {expect(minus2.p, {"number"})}})
        : minus2 \in {IF minus.val.type # "none" THEN Ok(minus.val, pre.p)
                      ELSE skipIf(pre.p, {"hyphen"})}})
        : pre \in {slurpUntil(minus.p, AmountStops)}})
    ELSE Bind({IF ~amt.ok THEN amt ELSE Ok(Amount(amt.val, minus.val, None, None), amt.p)
        : amt \in {expect(minus.p, {"number"})}})
      : minus \in {skipIf(p, {"hyphen"})}})

\* Amount.parse that accepts an amount after any space or none
AmountParseNoHardSpace(p) ==
  Bind({AmountParseBody(q)
      : q \in {peekP(p)}})

AmountParse(p) ==
  Bind({IF ~hardSpace.ok THEN hardSpace ELSE AmountParseBody(hardSpace.p)
      : hardSpace \in {expectHardSpace(p)}})

Comment(comment) ==
  [type |-> "comment", comment |-> comment,
   commentChar |-> IF comment.text = <<>> THEN <<>> ELSE <<Head(comment.text)>>,
   text |-> IF comment.text = <<>> THEN <<>> ELSE Tail(comment.text)]

CommentParse(p) ==
  Bind({IF ~r1.ok THEN r1
    ELSE Bind({IF ~r2.ok THEN r2 ELSE Ok(Comment(r1.val), r2.p)
        : r2 \in {expectEndOfLine(r1.p)}})
      : r1 \in {expect(p, {"comment"})}})

AuxDate(equal, date) == [type |-> "auxDate", equal |-> equal, date |-> date]

AuxDateParse(p) ==
  Bind({IF ~r1.ok THEN r1
    ELSE Bind({IF ~r2.ok THEN r2 ELSE Ok(AuxDate(r1.val, r2.val), r2.p)
        : r2 \in {DateNodeParse(r1.p)}})
      : r1 \in {expect(p, {"equal"})}})

Posting(account, amount) ==
  [type |-> "posting", account |-> account, amount |-> amount, comments |-> <<>>]

SurroundedBySpan(n) == combineSpans(<<span(n.open), span(n.close)>>)
AccountRefSpan(n) ==
  IF n.name.type = "surroundedBy" THEN SurroundedBySpan(n.name) ELSE GroupSpan(n.name)
AmountSpan(n) ==
  combineSpans(<<span(n.amount), optSpan(n.minus), optGroupSpan(n.preCommodity),
                 optGroupSpan(n.postCommodity)>>)
DateNodeSpan(n) == GroupSpan(n.raw)
AuxDateSpan(n) == combineSpans(<<span(n.equal), DateNodeSpan(n.date)>>)
PostingSpan(n) ==
  combineSpans(<<AccountRefSpan(n.account),
                 IF n.amount.type = "none" THEN NoSpan ELSE AmountSpan(n.amount)>>)

PostingParse(p) ==
  Bind({IF ~r1.ok THEN r1
    ELSE Bind({Bind({IF ~r2.ok THEN r2
        ELSE Ok(Posting(r1.val, r2.val),
                declareAccount(r2.p, accountName(r1.val), AccountRefSpan(r1.val)))
        : r2 \in {IF lineHasNext(q1) THEN AmountParse(q1) ELSE Ok(None, q1)}})
        : q1 \in {peekP(r1.p)}})
      : r1 \in {AccountRefParse(p)}})

\* Transaction.parsePostings: val = [postings, comments]
RECURSIVE parsePostingsLoop(_, _, _)
parsePostingsLoop(p0, postings, comments) ==
  Bind({IF ~nextIsIndented(p) THEN Ok([postings |-> postings, comments |-> comments], p)
    ELSE IF peek(p).type = "comment"
    THEN Bind({IF ~c.ok THEN c
      ELSE Bind({IF ~e.ok THEN e
        ELSE IF e.p.lex.count = p.lex.count THEN Err(StuckError, [e.p EXCEPT !.stuck = TRUE])
        ELSE IF Len(postings) > 0
          THEN Bind({parsePostingsLoop(e.p, ps, comments)
              : ps \in {[postings EXCEPT ![Len(postings)].comments = Append(@, c.val)]}})
        ELSE Bind({parsePostingsLoop(e.p, postings, cs)
            : cs \in {Append(comments, c.val)}})
          : e \in {expectEndOfLine(c.p)}})
        : c \in {CommentParse(p)}})
    ELSE Bind({IF ~posting.ok THEN posting
      ELSE Bind({IF ~e.ok THEN e
        ELSE IF e.p.lex.count = p.lex.count THEN Err(StuckError, [e.p EXCEPT !.stuck = TRUE])
        ELSE Bind({parsePostingsLoop(e.p, ps, comments)
            : ps \in {Append(postings, posting.val)}})
          : e \in {expectEndOfLine(posting.p)}})
        : posting \in {PostingParse(p)}})
      : p \in {peekP(p0)}})

parsePostings(p) == parsePostingsLoop(p, <<>>, <<>>)

Transaction(date, auxDate, cleared, pending, code, payee, comments, postings) ==
  [type |-> "transaction", date |-> date, auxDate |-> auxDate, cleared |-> cleared,
   pending |-> pending, code |-> code, payee |-> payee, comments |-> comments,
   postings |-> postings]

\* the part of Transaction.parse after the optional code
TransactionParseRest(date, auxDate, flag, code) ==
  Bind({IF ~sp3.ok THEN sp3
    ELSE Bind({IF ~payee.ok THEN payee
      ELSE Bind({Bind({IF ~comment.ok THEN comment
          ELSE Bind({IF ~eol.ok THEN eol
            ELSE Bind({IF ~postings.ok THEN postings
              ELSE Ok(Transaction(date.val, auxDate.val,
                                  IF flag.val.type = "star" THEN flag.val ELSE NoTok,
                                  IF flag.val.type = "bang" THEN flag.val ELSE NoTok,
                                  code.val, payee.val,
                                  IF comment.val.type # "none"
                                  THEN Append(postings.val.comments, comment.val)
                                  ELSE postings.val.comments,
                                  postings.val.postings),
                      postings.p)
                : postings \in {parsePostings(eol.p)}})
              : eol \in {expectEndOfLine(comment.p)}})
          : comment \in {IF peekType(q2, {"comment"}) THEN CommentParse(q2) ELSE Ok(None, q2)}})
          : q2 \in {peekP(payee.p)}})
        : payee \in {IF lineHasNext(sp3.p) THEN PayeeParse(sp3.p) ELSE Ok(None, sp3.p)}})
      : sp3 \in {inlineSpace(code.p)}})

TransactionParse(p) ==
  Bind({IF ~date.ok THEN date
    ELSE Bind({Bind({IF ~auxDate.ok THEN auxDate
        ELSE Bind({IF ~sp1.ok THEN sp1
          ELSE Bind({Bind({IF ~sp2.ok THEN sp2
              ELSE Bind({IF ~code.ok THEN code
                ELSE TransactionParseRest(date, auxDate, flag, code)
                  : code \in {IF peekType(sp2.p, {"lparen"})
                              THEN SurroundedByParse(sp2.p, "lparen", "rparen")
                              ELSE Ok(None, sp2.p)}})
              : sp2 \in {inlineSpace(flag.p)}})
              : flag \in {skipIf(sp1.p, {"bang", "star"})}})
            : sp1 \in {inlineSpace(auxDate.p)}})
        : auxDate \in {IF peekType(q1, {"equal"}) THEN AuxDateParse(q1) ELSE Ok(None, q1)}})
        : q1 \in {peekP(date.p)}})
      : date \in {DateNodeParse(p)}})

SubDirective(key, value) == [type |-> "subDirective", key |-> key, value |-> value]

SubDirectiveParse(p) ==
  Bind({IF ~r1.ok THEN r1
    ELSE Bind({Ok(SubDirective(r1.val, r2.val), r2.p)
        : r2 \in {slurpOpt(r1.p)}})
      : r1 \in {expect(p, {"identifier"})}})

\* Parser.whileIndented(() => SubDirective.parse(parser))
RECURSIVE whileIndentedSubDirective(_, _)
whileIndentedSubDirective(p0, acc) ==
  Bind({IF ~nextIsIndented(p) THEN Ok(acc, p)
    ELSE Bind({IF ~r.ok THEN r
      ELSE Bind({IF ~e.ok THEN e
        ELSE IF e.p.lex.count = p.lex.count THEN Err(StuckError, [e.p EXCEPT !.stuck = TRUE])
        ELSE Bind({whileIndentedSubDirective(e.p, acc2)
            : acc2 \in {Append(acc, r.val)}})
          : e \in {expectEndOfLine(r.p)}})
        : r \in {SubDirectiveParse(p)}})
      : p \in {peekP(p0)}})

Directive(name, arg, subDirectives) ==
  [type |-> "directive", name |-> name, arg |-> arg, subDirectives |-> subDirectives]

parseSubdirectives(p) == whileIndentedSubDirective(p, <<>>)

parseStandardDirective(p) ==
  Bind({IF ~r1.ok THEN r1
    ELSE Bind({Bind({IF ~r3.ok THEN r3
        ELSE Bind({IF ~r4.ok THEN r4 ELSE Ok(Directive(r1.val, r2.val, r4.val), r4.p)
            : r4 \in {parseSubdirectives(r3.p)}})
        : r3 \in {expectEndOfLine(r2.p)}})
        : r2 \in {slurpOpt(r1.p)}})
      : r1 \in {expect(p, {"identifier"})}})

CommentDirective(startName, body, end, endName) ==
  [type |-> "commentDirective", startName |-> startName, body |-> body, end |-> end,
   endName |-> endName]

\* a terminator "end test" whatever the name of the block
CommentTerminatorTest(name) == <<<<"e", "n", "d">>, <<"t", "e", "s", "t">>>>

\* the words of untilSequence('end', name.innerText())
CommentTerminator(name) == <<<<"e", "n", "d">>, name.text>>

CommentDirectiveParse(p) ==
  Bind({IF ~name.ok THEN name
    ELSE Bind({IF ~newline.ok THEN newline
      ELSE Bind({IF ~seq.ok THEN seq
        ELSE Ok(CommentDirective(name.val,
                                 IF seq.val.body.type # "none"
                                 THEN newline.val.trailingSpace \o GroupOuterText(seq.val.body)
                                 ELSE <<>>,
                                 seq.val.matched[1], seq.val.matched[2]),
                seq.p)
          : seq \in {untilSequence(newline.p, CommentTerminator(name.val))}})
        : newline \in {expectEndOfLine(name.p)}})
      : name \in {expect(p, {"identifier"})}})

Apply(apply, name, args) == [type |-> "apply", apply |-> apply, name |-> name, args |-> args]

ApplyParse(p) ==
  Bind({IF ~r1.ok THEN r1
    ELSE Bind({IF ~r2.ok THEN r2
      ELSE Bind({Bind({IF ~r4.ok THEN r4 ELSE Ok(Apply(r1.val, r2.val, r3.val), r4.p)
          : r4 \in {expectEndOfLine(r3.p)}})
          : r3 \in {slurpOpt(r2.p)}})
        : r2 \in {expect(r1.p, {"identifier"})}})
      : r1 \in {expect(p, {"identifier"})}})

End(end, apply, name) == [type |-> "end", end |-> end, apply |-> apply, name |-> name]

EndParse(p) ==
  Bind({IF ~r1.ok THEN r1
    ELSE Bind({Bind({IF ~r3.ok THEN r3
        ELSE Bind({IF ~r4.ok THEN r4 ELSE Ok(End(r1.val, r2.val, r3.val), r4.p)
            : r4 \in {expectEndOfLine(r3.p)}})
        : r3 \in {expect(r2.p, {"identifier"})}})
        : r2 \in {skipIfIdentifier(r1.p, <<"a", "p", "p", "l", "y">>)}})
      : r1 \in {expectIdentifier(p, <<"e", "n", "d">>)}})

Alias(alias, name, eq, value) ==
  [type |-> "alias", alias |-> alias, name |-> name, eq |-> eq, value |-> value]

\* Alias.parse whose value stops at the next =, the rest of the line dropped
AliasParseValueUntilEqual(p) ==
  Bind({IF ~r1.ok THEN r1
    ELSE Bind({IF ~r2.ok THEN r2
      ELSE Bind({IF ~r3.ok THEN r3
        ELSE Bind({IF ~r4.ok THEN r4
          ELSE Bind({IF ~r5.ok THEN r5 ELSE Ok(Alias(r1.val, r2.val, r3.val, r4.val), r5.p)
              : r5 \in {slurpOpt(r4.p)}})
            : r4 \in {slurpUntil(r3.p, {"equal"})}})
          : r3 \in {expect(r2.p, {"equal"})}})
        : r2 \in {slurpUntil(r1.p, {"equal"})}})
      : r1 \in {expectIdentifier(p, <<"a", "l", "i", "a", "s">>)}})

AliasParse(p) ==
  Bind({IF ~r1.ok THEN r1
    ELSE Bind({IF ~r2.ok THEN r2
      ELSE Bind({IF ~r3.ok THEN r3
        ELSE Bind({IF ~r4.ok THEN r4
          ELSE Bind({IF ~r5.ok THEN r5 ELSE Ok(Alias(r1.val, r2.val, r3.val, r4.val), r5.p)
              : r5 \in {expectEndOfLine(r4.p)}})
            : r4 \in {slurp(r3.p)}})
          : r3 \in {expect(r2.p, {"equal"})}})
        : r2 \in {slurpUntil(r1.p, {"equal"})}})
      : r1 \in {expectIdentifier(p, <<"a", "l", "i", "a", "s">>)}})

DirectiveParse(p0) ==
  Bind({IF peek(p).type # "identifier"
    THEN Bind({Err(unexpectedToken(n.tok, {"identifier"}), n.p)
        : n \in {next(p)}})
    ELSE IF peek(p).text = <<"a", "l", "i", "a", "s">> THEN AliasParse(p)
    ELSE IF peek(p).text = <<"a", "p", "p", "l", "y">> THEN ApplyParse(p)
    ELSE IF peek(p).text \in {<<"c", "o", "m", "m", "e", "n", "t">>, <<"t", "e", "s", "t">>}
      THEN CommentDirectiveParse(p)
    ELSE IF peek(p).text = <<"e", "n", "d">> THEN EndParse(p)
    ELSE parseStandardDirective(p)
      : p \in {peekP(p0)}})

(***************************************************************************)
(* Node spans.                                                             *)
(***************************************************************************)
CommentSpan(n) == span(n.comment)
PayeeSpan(n) == GroupSpan(n.group)
SubDirectiveSpan(n) == combineSpans(<<span(n.key), optGroupSpan(n.value)>>)

TransactionSpan(n) ==
  combineSpans(<<DateNodeSpan(n.date),
                 IF n.auxDate.type = "none" THEN NoSpan ELSE AuxDateSpan(n.auxDate),
                 optSpan(n.cleared),
                 optSpan(n.pending),
                 IF n.code.type = "none" THEN NoSpan ELSE SurroundedBySpan(n.code),
                 IF n.payee.type = "none" THEN NoSpan ELSE PayeeSpan(n.payee)>>)

DirectiveSpan(n) ==
  combineSpans(<<span(n.name)>> \o
               [i \in 1..Len(n.subDirectives) |-> SubDirectiveSpan(n.subDirectives[i])])

CommentDirectiveSpan(n) == combineSpans(<<span(n.startName), span(n.endName)>>)
ApplySpan(n) == combineSpans(<<span(n.apply), span(n.name)>>)
EndSpan(n) == combineSpans(<<span(n.end), span(n.name)>>)
AliasSpan(n) == combineSpans(<<span(n.alias), GroupSpan(n.value)>>)

\* the span getter of a child of File
ChildSpan(n) ==
  CASE n.type = "transaction" -> TransactionSpan(n)
    [] n.type = "comment" -> CommentSpan(n)
    [] n.type = "directive" -> DirectiveSpan(n)
    [] n.type = "commentDirective" -> CommentDirectiveSpan(n)
    [] n.type = "apply" -> ApplySpan(n)
    [] n.type = "end" -> EndSpan(n)
    [] n.type = "alias" -> AliasSpan(n)

FileSpan(cs) ==
  IF Len(cs) = 0 THEN <<0, 0>> ELSE combineSpans([i \in 1..Len(cs) |-> ChildSpan(cs[i])])

(***************************************************************************)
(* File.parse: one iteration of its while loop.  ok tells whether a child  *)
(* was produced; otherwise err is the error handed to synchronize.         *)
(***************************************************************************)
\* the outcome of an iteration whose item parser returned result
FileParseItem(result) ==
  IF result.ok THEN [p |-> result.p, ok |-> TRUE, child |-> result.val, err |-> None]
  ELSE [p |-> synchronize(result.p), ok |-> FALSE, child |-> None, err |-> result.err]

\* a dispatch whose default case consumes the token after the unexpected one
\* as well
FileParseDispatchSkipsNext(p) ==
  IF peek(p).type \in {"number", "comment", "identifier"}
  THEN Bind({FileParseItem(result)
      : result \in {IF peek(p).type = "number" THEN TransactionParse(p)
                    ELSE IF peek(p).type = "comment" THEN CommentParse(p)
                    ELSE DirectiveParse(p)}})
  ELSE Bind({[p |-> synchronize(next(n.p).p), ok |-> FALSE, child |-> None,
          err |-> unexpectedToken(n.tok, {})]
      : n \in {next(p)}})

\* the dispatch of the loop body on the type of the next token
FileParseDispatch(p) ==
  IF peek(p).type \in {"number", "comment", "identifier"}
  THEN Bind({FileParseItem(result)
      : result \in {IF peek(p).type = "number" THEN TransactionParse(p)
                    ELSE IF peek(p).type = "comment" THEN CommentParse(p)
                    ELSE DirectiveParse(p)}})
  ELSE Bind({[p |-> synchronize(n.p), ok |-> FALSE, child |-> None,
          err |-> unexpectedToken(n.tok, {})]
      : n \in {next(p)}})

\* the loop body without its test for an indented line start
FileParseStepNoIndentTest(p0) ==
  Bind({FileParseDispatch(p)
      : p \in {peekP(p0)}})

FileParseStep(p0) ==
  Bind({IF nextIsIndented(p)
    THEN [p |-> synchronize(p), ok |-> FALSE, child |-> None, err |-> leadingSpace(peek(p))]
    ELSE FileParseDispatch(p)
      : p \in {peekP(p0)}})

\* the parser state held in the variables
CurP == [lex |-> lexer, accounts |-> accounts, payees |-> payees, threw |-> FALSE, stuck |-> stuck]

Throws(p) == p.lex.thrown \/ p.threw

\* what an iteration finds when it starts: the children and diagnostics so
\* far, the token File.parse peeks and whether the line start is indented
AtLoopTop ==
  [children |-> children, diagnostics |-> diagnostics, next |-> peek(CurP),
   indented |-> nextIsIndented(CurP), accounts |-> accounts, payees |-> payees]

NoIteration ==
  [children |-> <<>>, diagnostics |-> <<>>, next |-> NoTok, indented |-> FALSE,
   accounts |-> <<>>, payees |-> <<>>]

\* an iteration that forgets the children parsed so far when the item fails
FileIterationDropsChildren ==
  \E st \in {FileParseStep(CurP)} :
    \E q \in {peekP(st.p)} :
      /\ ~Throws(q)
      /\ lexer' = q.lex
      /\ accounts' = st.p.accounts
      /\ payees' = st.p.payees
      /\ stuck' = st.p.stuck
      /\ children' = IF st.ok THEN Append(children, st.child) ELSE <<>>
      /\ diagnostics' = IF st.ok THEN diagnostics ELSE Append(diagnostics, st.err)
      /\ pc' = "parse"
      /\ before' = AtLoopTop
      /\ UNCHANGED <<input, out>>

\* the assignments one iteration makes
FileIteration ==
  \E st \in {FileParseStep(CurP)} :
    \E q \in {peekP(st.p)} :
      /\ ~Throws(q)
      /\ lexer' = q.lex
      /\ accounts' = st.p.accounts
      /\ payees' = st.p.payees
      /\ stuck' = st.p.stuck
      /\ children' = IF st.ok THEN Append(children, st.child) ELSE children
      /\ diagnostics' = IF st.ok THEN diagnostics ELSE Append(diagnostics, st.err)
      /\ pc' = "parse"
      /\ before' = AtLoopTop
      /\ UNCHANGED <<input, out>>

FileLeadingSpace ==
  /\ pc = "parse"
  /\ hasNext(CurP)
  /\ nextIsIndented(CurP)
  /\ FileIteration

FileTransaction ==
  /\ pc = "parse"
  /\ hasNext(CurP)
  /\ ~nextIsIndented(CurP)
  /\ peek(CurP).type = "number"
  /\ FileIteration

FileComment ==
  /\ pc = "parse"
  /\ hasNext(CurP)
  /\ ~nextIsIndented(CurP)
  /\ peek(CurP).type = "comment"
  /\ FileIteration

FileDirective ==
  /\ pc = "parse"
  /\ hasNext(CurP)
  /\ ~nextIsIndented(CurP)
  /\ peek(CurP).type = "identifier"
  /\ FileIteration

FileUnexpected ==
  /\ pc = "parse"
  /\ hasNext(CurP)
  /\ ~nextIsIndented(CurP)
  /\ peek(CurP).type \notin {"number", "comment", "identifier"}
  /\ FileIteration

\* the loop ends at eof and parse() returns its ParserResult
FileReturn ==
  /\ pc = "parse"
  /\ ~hasNext(CurP)
  /\ ~Throws(peekP(CurP))
  /\ lexer' = LexerPeek(lexer)
  /\ pc' = "done"
  /\ UNCHANGED <<input, out, children, diagnostics, accounts, payees, stuck, before>>

\* an exception leaves parse(): no ParserResult is returned
FileThrow ==
  /\ pc = "parse"
  /\ \/ ~hasNext(CurP) /\ Throws(peekP(CurP))
     \/ hasNext(CurP) /\ \E st \in {FileParseStep(CurP)} : Throws(peekP(st.p))
  /\ pc' = "thrown"
  /\ UNCHANGED <<input, lexer, out, children, diagnostics, accounts, payees, stuck, before>>

(***************************************************************************)
(* The inputs of the parser specification: every concatenation of at most  *)
(* MaxChunks words of Words, where the first word may also be one of the   *)
(* longer line heads of Heads; and every scenario of Scenarios followed by  *)
(* at most MaxTail words.                                                  *)
(***************************************************************************)
Words == {<<"1">>, <<"1", "-", "1">>, <<" ">>, <<"\n">>, <<"a">>, <<";">>, <<"\r">>}

Heads == {<<"1", "-", "1", " ", "a", " ", " ", " ">>,
          <<"1", "-", "1", "\n", " ", "a", " ", " ", " ">>,
          <<"a", "\n">>}

\* two transactions with the same payee
SamePayeeTwice == <<"1", "-", "1", " ", "a", "\n", "1", "-", "1", " ", "a">>

\* the start of a posting on a virtual account, up to or past its closing bracket
VirtualPostings ==
  {<<"1", "-", "1", "\n", " ">> \o acct :
     acct \in {<<"(", "a", ")">>, <<"(", "a", ")", " ", " ">>, <<"[", "a", "]">>,
               <<"[", "a", "]", "\t">>, <<"(", "a", "]">>, <<"[", "a", ")">>,
               <<"(", "a">>, <<"[", "a">>, <<"(">>, <<"(", ")">>}}

\* a transaction header with one flag or with both, adjacent or spaced
FlagHeaders ==
  {<<"1", "-", "1", " ">> \o flags :
     flags \in {<<"*">>, <<"!">>, <<"*", "!">>, <<"!", "*">>, <<"*", " ", "!">>,
                <<"!", " ", "*">>, <<"*", " ", "!", " ", "a">>}}

\* dates, alone and after the date and the = of an auxiliary date
Dates ==
  {<<"1", "/", "1">>, <<"1", "/", "1", "/", "1">>, <<"1", "-", "1", "-", "1">>,
   <<"1", "-", "1", "/", "1">>, <<"1", "/", "1", "-", "1">>, <<"1", ".", "1", "-", "1">>,
   <<"1", "-", "1", ".", "1">>, <<"1", "-", "1", "-", "1", ".", "1">>,
   <<"1", ",", "1", "/", "1">>}

DateHeaders == Dates \cup {<<"1", "-", "1", "=">> \o d : d \in Dates}

\* runs of spaces and tabs
BlankRuns == {<<"\t">>, <<" ", "\t", " ">>}

\* comment blocks, with and without their terminator, after a directive line
CommentWord == <<"c", "o", "m", "m", "e", "n", "t">>
TestWord == <<"t", "e", "s", "t">>
EndWord == <<"e", "n", "d">>

CommentBlocks ==
  {<<>>, <<"a", "\n">>} \X
  {CommentWord, TestWord,
   CommentWord \o <<"\n">> \o EndWord \o <<" ">> \o TestWord,
   TestWord \o <<"\n">> \o EndWord \o <<" ">> \o CommentWord,
   CommentWord \o <<"\n">> \o EndWord \o <<" ">> \o CommentWord,
   TestWord \o <<"\n", "a", " ">> \o EndWord \o <<" ">> \o TestWord,
   CommentWord \o <<"\n">> \o EndWord,
   CommentWord \o <<" ", "a">>}

Scenarios ==
  {SamePayeeTwice} \cup VirtualPostings \cup FlagHeaders \cup DateHeaders \cup BlankRuns
    \cup {b[1] \o b[2] : b \in CommentBlocks}

\* alias lines: the word alias followed by a name, = and a value, or by less
AliasWord == <<"a", "l", "i", "a", "s">>

AliasLines ==
  {AliasWord \o rest : rest \in
     {<<>>, <<" ", "a">>, <<" ", "a", "=">>, <<" ", "=", "a">>, <<" ", "=">>,
      <<" ", "a", "=", "1">>, <<" ", "a", "=", "1", "=", "a">>, <<" ", "a", " ", "=", " ", "a">>,
      <<" ", "a", " ", "1", "=", "a", " ", " ", "a">>, <<" ", "a", "=", "=">>}}

\* terminated comment blocks: the terminator right after the opening line, at
\* the start of the line and indented, and after a body line
BlockLines ==
  {CommentWord \o <<"\n", " ", " ">> \o EndWord \o <<" ">> \o CommentWord,
   TestWord \o <<" ", "\n", "\t">> \o EndWord \o <<" ">> \o TestWord,
   CommentWord \o <<"\n", " ", "a", " ", "\n", "\n", " ">> \o EndWord \o <<" ">> \o CommentWord,
   CommentWord \o <<"\n">> \o EndWord \o <<" ", "a", "\n">> \o EndWord \o <<" ">> \o CommentWord}

\* a transaction whose first posting has the account a and, after two spaces,
\* an amount with a commodity before, after or on both sides of the number
AmountLines ==
  {<<"1", "-", "1", "\n", " ", "a", " ", " ">> \o amt : amt \in
     {<<"1">>, <<"-", "1">>, <<"a", "1">>, <<"1", "a">>, <<"1", " ", "a">>,
      <<"a", "1", " ", "a">>, <<"a", " ", "1", " ", "a">>, <<"a", "1", "a">>,
      <<"-", "a", "1">>, <<"a", "-", "1">>, <<"-", "a", "-", "1">>, <<"-", "1", "a">>,
      <<"a">>, <<"-">>, <<"1", " ", "1">>}}

\* transaction headers with a payee and a comment after a soft or a hard
\* space, alone and followed by a posting line
PayeeLines ==
  {<<"1", "-", "1">> \o rest : rest \in
     {<<" ", "a", " ", ";", "a">>, <<" ", "a", " ", " ", ";", "a">>, <<" ", "a", "\t", ";", "a">>,
      <<" ", "a", " ", " ", "a">>, <<" ", "a", " ", " ", "a", "\t", "a", " ", " ", ";">>,
      <<" ", "a", " ", " ", "a", " ", ";">>, <<" ", " ", ";", "a">>, <<" ", ";", "a">>,
      <<" ", "a", " ", " ", ";", "a", "\n", " ", "a">>,
      <<" ", "a", " ", ";", "a", "\n", " ", "a">>}}

\* transactions whose block has comment lines before, between and after the
\* posting lines
CommentedBlocks ==
  {<<"1", "-", "1", "\n">> \o rest : rest \in
     {<<" ", ";", "a">>, <<" ", ";", "a", "\n", " ", "a">>, <<" ", "a", "\n", " ", ";", "a">>,
      <<" ", "a", "\n", "\t", ";", "\n", " ", "b">>, <<" ", ";", "\n", " ", ";", "a">>,
      <<" ", "a", "\n", " ", "b", "\n", " ", ";", "a", "\n", " ", ";">>}}

\* apply directives without and with args
ApplyLines ==
  {<<"a", "p", "p", "l", "y">> \o rest : rest \in {<<" ", "a">>, <<" ", "a", " ", "a">>}}

\* the lines that are followed by at most MaxTail words of TailWords
Lines == AliasLines \cup BlockLines \cup AmountLines \cup PayeeLines \cup CommentedBlocks
           \cup ApplyLines

TailWords == {<<"\n">>, <<" ">>, <<"a">>}

ParseInputs ==
  {Flatten(ws) : ws \in SeqsUpTo(Words, MaxChunks)} \cup
  {h \o Flatten(ws) : h \in Heads, ws \in SeqsUpTo(Words, MaxChunks - 1)} \cup
  {h \o Flatten(ws) : h \in Scenarios, ws \in SeqsUpTo(Words, MaxTail)} \cup
  {h \o Flatten(ws) : h \in Lines, ws \in SeqsUpTo(TailWords, MaxTail)}

Init ==
  /\ input \in ParseInputs
  /\ lexer = NewLexer(input)
  /\ out = <<>>
  /\ pc = "parse"
  /\ children = <<>>
  /\ diagnostics = <<>>
  /\ accounts = <<>>
  /\ payees = <<>>
  /\ stuck = FALSE
  /\ before = NoIteration

Next ==
  \/ FileLeadingSpace
  \/ FileTransaction
  \/ FileComment
  \/ FileDirective
  \/ FileUnexpected
  \/ FileReturn
  \/ FileThrow

Spec == Init /\ [][Next]_vars

(***************************************************************************)
(* The inputs of the lexer specification: every string over LexChars of    *)
(* length at most MaxLexLen.                                               *)
(***************************************************************************)
LexChars == {" ", "\t", "\n", "\r", "a", "1", ";", "."}

LexInputs == SeqsUpTo(LexChars, MaxLexLen)

InitLex ==
  /\ input \in LexInputs
  /\ lexer = NewLexer(input)
  /\ out = <<>>
  /\ pc = "iter"
  /\ children = <<>>
  /\ diagnostics = <<>>
  /\ accounts = <<>>
  /\ payees = <<>>
  /\ stuck = FALSE
  /\ before = NoIteration

\* one step of the Lexer's iterator: next() until the eof token was returned
IterNext ==
  /\ pc = "iter"
  /\ \E r \in {LexerNext(lexer)} :
       /\ ~r.lx.thrown
       /\ lexer' = r.lx
       /\ out' = Append(out, r.tok)
       /\ pc' = IF r.tok.type = "eof" THEN "iterdone" ELSE "iter"
  /\ UNCHANGED <<input, children, diagnostics, accounts, payees, stuck, before>>

\* the step of the iterator in which moo finds no matching rule and throws
IterThrow ==
  /\ pc = "iter"
  /\ \E r \in {LexerNext(lexer)} :
       /\ r.lx.thrown
       /\ lexer' = r.lx
  /\ pc' = "thrown"
  /\ UNCHANGED <<input, out, children, diagnostics, accounts, payees, stuck, before>>

NextLex == IterNext \/ IterThrow

SpecLex == InitLex /\ [][NextLex]_vars

\* the outer texts of the tokens the iterator returned, concatenated
OutText == Flatten([i \in 1..Len(out) |-> outerText(out[i])])

(***************************************************************************)
(* C1: once the iterator has returned the eof token, the outer texts of    *)
(* the tokens it returned, concatenated in order, are exactly the input:   *)
(* no character is lost or duplicated, whitespace at either end included.  *)
(***************************************************************************)
C1_LexerRoundTrip == pc = "iterdone" => OutText = input

\* an input with whitespace at both ends and in the middle was iterated to eof
C1_Witness ==
  /\ pc = "iterdone"
  /\ Len(input) = MaxLexLen
  /\ IsWsChar(input[1])
  /\ IsWsChar(input[Len(input)])
  /\ Len(out) >= 3
  /\ OutText = input

\* input[from, to)
Slice(s, from, to) == SubSeq(s, from + 1, Min2(to, Len(s)))

TokenPositionOk(t) ==
  /\ Slice(input, t.offset, t.offset + outerLength(t)) = outerText(t)
  /\ Slice(input, span(t)[1], span(t)[2]) = t.text

(***************************************************************************)
(* C9: every token the lexer returned, eof included, records as its offset *)
(* the index of the first character of its leading whitespace: the input   *)
(* from offset to offset + outerLength is its outer text, and its span is  *)
(* the range of its inner text.                                            *)
(***************************************************************************)
C9_TokenPositions == \A i \in 1..Len(out) : TokenPositionOk(out[i])


(***************************************************************************)
(* The tokens a tree stores, in source order, and the spans of its nodes.  *)
(***************************************************************************)
optTok(t) == IF t.type = "none" THEN {} ELSE {t}
GroupTokens(g) == IF g.type = "none" THEN {} ELSE {g.tokens[i] : i \in 1..Len(g.tokens)}
SurroundedByTokens(n) ==
  IF n.type = "none" THEN {} ELSE {n.open, n.close} \cup GroupTokens(n.contents)
DateNodeTokens(n) == GroupTokens(n.raw)
AccountRefTokens(n) ==
  IF n.name.type = "surroundedBy" THEN SurroundedByTokens(n.name) ELSE GroupTokens(n.name)
AmountTokens(n) ==
  IF n.type = "none" THEN {}
  ELSE {n.amount} \cup optTok(n.minus) \cup GroupTokens(n.preCommodity)
         \cup GroupTokens(n.postCommodity)
CommentsTokens(cs) == {cs[i].comment : i \in 1..Len(cs)}
PostingTokens(n) ==
  AccountRefTokens(n.account) \cup AmountTokens(n.amount) \cup CommentsTokens(n.comments)

ChildTokens(n) ==
  CASE n.type = "transaction" ->
         DateNodeTokens(n.date)
           \cup (IF n.auxDate.type = "none" THEN {}
                 ELSE {n.auxDate.equal} \cup DateNodeTokens(n.auxDate.date))
           \cup optTok(n.cleared) \cup optTok(n.pending) \cup SurroundedByTokens(n.code)
           \cup (IF n.payee.type = "none" THEN {} ELSE GroupTokens(n.payee.group))
           \cup CommentsTokens(n.comments)
           \cup UNION {PostingTokens(n.postings[i]) : i \in 1..Len(n.postings)}
    [] n.type = "comment" -> {n.comment}
    [] n.type = "directive" ->
         {n.name} \cup GroupTokens(n.arg)
           \cup UNION {{n.subDirectives[i].key} \cup GroupTokens(n.subDirectives[i].value) :
                         i \in 1..Len(n.subDirectives)}
    [] n.type = "commentDirective" -> {n.startName, n.end, n.endName}
    [] n.type = "apply" -> {n.apply, n.name} \cup GroupTokens(n.args)
    [] n.type = "end" -> {n.end, n.name} \cup optTok(n.apply)
    [] n.type = "alias" -> {n.alias, n.eq} \cup GroupTokens(n.name) \cup GroupTokens(n.value)

\* a set of tokens as the sequence ordered by offset
RECURSIVE SourceOrder(_)
SourceOrder(S) ==
  IF S = {} THEN <<>>
  ELSE LET m == CHOOSE t \in S : \A u \in S : t.offset <= u.offset
       IN  <<m>> \o SourceOrder(S \ {m})

TokensText(ts) == Flatten([i \in 1..Len(ts) |-> outerText(ts[i])])

\* the text a walk over the tree emits
TreeText(cs) == TokensText(SourceOrder(UNION {ChildTokens(cs[i]) : i \in 1..Len(cs)}))

PostingNodeSpans(n) ==
  {PostingSpan(n), AccountRefSpan(n.account)}
    \cup (IF n.account.name.type = "surroundedBy"
          THEN {SurroundedBySpan(n.account.name), GroupSpan(n.account.name.contents)}
          ELSE {})
    \cup (IF n.amount.type = "none" THEN {} ELSE {AmountSpan(n.amount)})
    \cup {CommentSpan(n.comments[i]) : i \in 1..Len(n.comments)}

SubNodeSpans(n) ==
  CASE n.type = "transaction" ->
         {DateNodeSpan(n.date)}
           \cup (IF n.auxDate.type = "none" THEN {}
                 ELSE {AuxDateSpan(n.auxDate), DateNodeSpan(n.auxDate.date)})
           \cup (IF n.code.type = "none" THEN {}
                 ELSE {SurroundedBySpan(n.code), GroupSpan(n.code.contents)})
           \cup (IF n.payee.type = "none" THEN {} ELSE {PayeeSpan(n.payee)})
           \cup {CommentSpan(n.comments[i]) : i \in 1..Len(n.comments)}
           \cup UNION {PostingNodeSpans(n.postings[i]) : i \in 1..Len(n.postings)}
    [] n.type = "directive" ->
         ({optGroupSpan(n.arg)} \ {NoSpan})
           \cup {SubDirectiveSpan(n.subDirectives[i]) : i \in 1..Len(n.subDirectives)}
    [] n.type = "apply" -> {optGroupSpan(n.args)} \ {NoSpan}
    [] n.type = "alias" -> {GroupSpan(n.name), GroupSpan(n.value)}
    [] OTHER -> {}

\* the spans of a child of File and of every node below it
NodeSpans(n) ==
  {ChildSpan(n)} \cup {span(t) : t \in ChildTokens(n)} \cup SubNodeSpans(n)

(***************************************************************************)
(* File.parse run to its end from parser state p0: the children and the    *)
(* diagnostics it adds to cs and ds, or thrown when an exception left it.  *)
(***************************************************************************)
RECURSIVE RunFile(_, _, _)
RunFile(p0, cs, ds) ==
  LET p == peekP(p0)
  IN  IF Throws(p) THEN [thrown |-> TRUE, children |-> cs, diagnostics |-> ds]
      ELSE IF ~hasNext(p) THEN [thrown |-> FALSE, children |-> cs, diagnostics |-> ds]
      ELSE LET st == FileParseStep(p)
           IN  RunFile(st.p,
                       IF st.ok THEN Append(cs, st.child) ELSE cs,
                       IF st.ok THEN ds ELSE Append(ds, st.err))

(***************************************************************************)
(* C2: when parse() returns with no diagnostics, the outer texts of the    *)
(* tokens stored in the tree, in source order, concatenate to the input.   *)
(***************************************************************************)
C2_TreeRoundTrip == (pc = "done" /\ diagnostics = <<>>) => TreeText(children) = input

(***************************************************************************)
(* C3: parse() never throws, whatever the input.                           *)
(***************************************************************************)
C3_ParseNeverThrows == pc # "thrown"

\* an iteration of the top-level loop, and of the loops nested in it, consumes
\* a token: the loops end after at most as many iterations as there are tokens
C4_IterationConsumes ==
  /\ (pc = "parse" /\ pc' = "parse") => lexer'.count > lexer.count
  /\ ~stuck'

(***************************************************************************)
(* C4: File.parse terminates: every iteration of the top-level loop and of *)
(* the nested posting, sub-directive and payee loops consumes a token or   *)
(* exits, and the loop ends at eof with the result returned, never with an *)
(* exception.                                                              *)
(***************************************************************************)
C4_FileParseTerminates == [][C4_IterationConsumes]_vars /\ [](pc # "thrown")

\* the part of C4 that holds whether or not the tokenizer accepts the input
C4_LoopsProgress == [][C4_IterationConsumes]_vars

(***************************************************************************)
(* The point at which the loop stands, and what it parses from there on.   *)
(***************************************************************************)
AtResyncPoint ==
  \/ ~hasNext(CurP)
  \/ previous(CurP).type \in {"none", "newline"} /\ ~nextIsIndented(CurP)

\* offset of the first character of the next token's inner text
ResumeOffset == IF hasNext(CurP) THEN peek(CurP).offset ELSE Len(input)

\* every line that starts in input[from, to) starts with whitespace
OnlyIndentedLines(from, to) ==
  \A j \in from..(to - 2) : input[j + 1] = "\n" => IsWsChar(input[j + 2])

RunShape(run) ==
  [thrown |-> run.thrown,
   children |-> [i \in 1..Len(run.children) |->
                   <<run.children[i].type, TokensText(SourceOrder(ChildTokens(run.children[i])))>>],
   codes |-> [i \in 1..Len(run.diagnostics) |-> run.diagnostics[i].code]]

\* the rest of this parse, and a parse of the rest of the input on its own
RestOfParse == RunShape(RunFile(CurP, <<>>, <<>>))
ParseOfRest ==
  RunShape(RunFile(NewParser(NewLexer(SubSeq(input, ResumeOffset + 1, Len(input)))), <<>>, <<>>))

LastDiagnostic == diagnostics[Len(diagnostics)]

IndentedTxThenTx == <<" ", "1", "-", "1", "\n", "1", "-", "1">>

C6_IndentedIteration ==
  before.indented =>
    /\ Len(diagnostics) = Len(before.diagnostics) + 1
    /\ SubSeq(diagnostics, 1, Len(before.diagnostics)) = before.diagnostics
    /\ LastDiagnostic.code = "LEADING_SPACE"
    /\ LastDiagnostic.span = span(before.next)
    /\ children = before.children
    /\ AtResyncPoint
    /\ OnlyIndentedLines(before.next.offset, ResumeOffset)
    /\ RestOfParse = ParseOfRest

C6_Scenario ==
  (pc = "done" /\ input = IndentedTxThenTx) =>
    /\ Len(diagnostics) = 1
    /\ diagnostics[1].code = "LEADING_SPACE"
    /\ Len(children) = 1
    /\ children[1].type = "transaction"

(***************************************************************************)
(* C6: an iteration that started at a line whose first token is indented   *)
(* added exactly one LEADING_SPACE diagnostic, at that token, and no       *)
(* child, skipped that line and its indented continuation lines, and left  *)
(* the rest to be parsed as usual; an indented transaction followed by an  *)
(* unindented one gives one diagnostic and one child.                      *)
(***************************************************************************)
C6_LeadingSpace == C6_IndentedIteration /\ C6_Scenario

C6_Witness ==
  /\ pc = "done"
  /\ input = IndentedTxThenTx
  /\ Len(diagnostics) = 1
  /\ Len(children) = 1

(***************************************************************************)
(* C7: in the diagnostics parse() returns, the span starts never decrease. *)
(***************************************************************************)
C7_DiagnosticsInSourceOrder ==
  pc = "done" =>
    \A i \in 1..(Len(diagnostics) - 1) : diagnostics[i].span[1] <= diagnostics[i + 1].span[1]

(***************************************************************************)
(* C8: every diagnostic parse() returns has a span inside the input:       *)
(* 0 <= start <= end <= n.                                                 *)
(***************************************************************************)
C8_DiagnosticsInBounds ==
  pc = "done" =>
    \A i \in 1..Len(diagnostics) :
      /\ 0 <= diagnostics[i].span[1]
      /\ diagnostics[i].span[1] <= diagnostics[i].span[2]
      /\ diagnostics[i].span[2] <= Len(input)

(***************************************************************************)
(* C10: in the tree parse() returns, every node has span[0] <= span[1],    *)
(* and each child of File starts at or after the end of the child before.  *)
(***************************************************************************)
C10_SpanMonotonicity ==
  pc = "done" =>
    /\ FileSpan(children)[1] <= FileSpan(children)[2]
    /\ \A i \in 1..Len(children) : \A sp \in NodeSpans(children[i]) : sp[1] <= sp[2]
    /\ \A i \in 1..(Len(children) - 1) :
         ChildSpan(children[i + 1])[1] >= ChildSpan(children[i])[2]

\* a transaction with a posting, followed by a second child
C10_Witness ==
  /\ pc = "done"
  /\ Len(children) = 2
  /\ children[1].type = "transaction"
  /\ Len(children[1].postings) = 1
  /\ ChildSpan(children[2])[1] >= ChildSpan(children[1])[2]

(***************************************************************************)
(* The symbol table on its own: add() and get() called with any key and    *)
(* span, in any order.  The table is held in accounts; pc tells how the    *)
(* last call ended and before holds that call and the table it found.      *)
(***************************************************************************)
TableKeys == {<<"a">>, <<"b">>, <<"c">>}

TableSpans == {<<0, 1>>, <<2, 3>>, <<4, 5>>}

\* SymbolTable.get: the span stored under key, or None (undefined)
SymbolTableGet(table, key) ==
  IF SymbolTableHas(table, key)
  THEN (CHOOSE e \in {table[i] : i \in 1..Len(table)} : e.key = key).span
  ELSE None

NoCall == [op |-> "none", table |-> <<>>, key |-> <<>>, span |-> NoSpan, had |-> FALSE]

InitTable ==
  /\ input = <<>>
  /\ lexer = NewLexer(<<>>)
  /\ out = <<>>
  /\ pc = "returned"
  /\ children = <<>>
  /\ diagnostics = <<>>
  /\ accounts = <<>>
  /\ payees = <<>>
  /\ stuck = FALSE
  /\ before = NoCall

\* add(key, span) that returns normally
TableAdd ==
  /\ pc \in {"returned", "thrown"}
  /\ \E key \in TableKeys, sp \in TableSpans :
       \E r \in {SymbolTableAdd(accounts, key, sp)} :
         /\ ~r.threw
         /\ accounts' = r.table
         /\ pc' = "returned"
         /\ before' = [op |-> "add", table |-> accounts, key |-> key, span |-> sp,
                       had |-> SymbolTableHas(accounts, key)]
  /\ UNCHANGED <<input, lexer, out, children, diagnostics, payees, stuck>>

\* add(key, span) that throws "Re-definition of symbol"
TableAddThrow ==
  /\ pc \in {"returned", "thrown"}
  /\ \E key \in TableKeys, sp \in TableSpans :
       \E r \in {SymbolTableAdd(accounts, key, sp)} :
         /\ r.threw
         /\ accounts' = r.table
         /\ pc' = "thrown"
         /\ before' = [op |-> "add", table |-> accounts, key |-> key, span |-> sp,
                       had |-> SymbolTableHas(accounts, key)]
  /\ UNCHANGED <<input, lexer, out, children, diagnostics, payees, stuck>>

\* get(key): the result is kept in out
TableGet ==
  /\ pc \in {"returned", "thrown"}
  /\ \E key \in TableKeys :
       /\ out' = <<SymbolTableGet(accounts, key)>>
       /\ before' = [op |-> "get", table |-> accounts, key |-> key, span |-> NoSpan,
                     had |-> SymbolTableHas(accounts, key)]
  /\ pc' = "returned"
  /\ UNCHANGED <<input, lexer, children, diagnostics, accounts, payees, stuck>>

NextTable == TableAdd \/ TableAddThrow \/ TableGet

SpecTable == InitTable /\ [][NextTable]_vars

(***************************************************************************)
(* C12: SymbolTable.add(name, span) called with a name that is already a   *)
(* key is a no-op: it returns normally (no error is raised), the table is  *)
(* unchanged and get(name) is still the span of the first add.             *)
(***************************************************************************)
C12_AddExistingIsNoOp ==
  (before.op = "add" /\ before.had) =>
    /\ pc = "returned"
    /\ accounts = before.table
    /\ SymbolTableGet(accounts, before.key) = SymbolTableGet(before.table, before.key)

(***************************************************************************)
(* Declarations found in a tree: the accounts of the postings and the      *)
(* payees of the transactions, in source order, each with the name and the *)
(* span the parser declares it with.                                       *)
(***************************************************************************)
IsPrefix(s, t) == Len(s) <= Len(t) /\ SubSeq(t, 1, Len(s)) = s

UniqueKeys(table) ==
  \A i, j \in 1..Len(table) : table[i].key = table[j].key => i = j

TransactionsOf(cs) == SelectSeq(cs, LAMBDA c : c.type = "transaction")

PostingDeclarations(tx) ==
  [i \in 1..Len(tx.postings) |->
     [key |-> accountName(tx.postings[i].account),
      span |-> AccountRefSpan(tx.postings[i].account)]]

AccountDeclarations(cs) ==
  Flatten([i \in 1..Len(TransactionsOf(cs)) |-> PostingDeclarations(TransactionsOf(cs)[i])])

PayeeDeclarations(cs) ==
  Flatten([i \in 1..Len(TransactionsOf(cs)) |->
     IF TransactionsOf(cs)[i].payee.type = "none" THEN <<>>
     ELSE <<[key |-> GroupInnerText(TransactionsOf(cs)[i].payee.group),
             span |-> PayeeSpan(TransactionsOf(cs)[i].payee)]>>])

\* the declarations of decls that are the first of their name
RECURSIVE FirstDeclarations(_, _)
FirstDeclarations(decls, table) ==
  IF decls = <<>> THEN table
  ELSE FirstDeclarations(Tail(decls),
         IF SymbolTableHas(table, Head(decls).key) THEN table ELSE Append(table, Head(decls)))

\* every declaration of decls is in the table, under a span that starts no
\* later than its own
StoredLeftmost(table, decls) ==
  \A i \in 1..Len(decls) :
    /\ SymbolTableHas(table, decls[i].key)
    /\ SymbolTableGet(table, decls[i].key)[1] <= decls[i].span[1]

(***************************************************************************)
(* C11: after any parse each account name and each payee name is a key of  *)
(* its table at most once and is stored with the span of its first         *)
(* declaration: an iteration of File.parse never changes or removes an     *)
(* entry, a later posting or payee of the same name keeps the stored span, *)
(* and SymbolTable.add never throws.  When nothing failed, the tables are  *)
(* exactly the first declarations of the tree.                             *)
(***************************************************************************)
C11_SymbolTableStability ==
  /\ UniqueKeys(accounts) /\ UniqueKeys(payees)
  /\ IsPrefix(before.accounts, accounts) /\ IsPrefix(before.payees, payees)
  /\ (pc = "parse" /\ hasNext(CurP)) => ~FileParseStep(CurP).p.threw
  /\ pc = "done" =>
       /\ StoredLeftmost(accounts, AccountDeclarations(children))
       /\ StoredLeftmost(payees, PayeeDeclarations(children))
       /\ diagnostics = <<>> =>
            /\ accounts = FirstDeclarations(AccountDeclarations(children), <<>>)
            /\ payees = FirstDeclarations(PayeeDeclarations(children), <<>>)

\* a transaction with two postings on the same account: one entry, stored
\* with the span of the first posting's account
C11_Witness ==
  /\ pc = "done"
  /\ diagnostics = <<>>
  /\ Len(AccountDeclarations(children)) = 2
  /\ Len(accounts) = 1
  /\ AccountDeclarations(children)[1].span = accounts[1].span
  /\ AccountDeclarations(children)[2].span # accounts[1].span

(***************************************************************************)
(* The postings of a tree and the tokens around the gap between account    *)
(* and amount.                                                             *)
(***************************************************************************)
AllPostings(cs) ==
  Flatten([i \in 1..Len(TransactionsOf(cs)) |-> TransactionsOf(cs)[i].postings])

\* the last token of the account reference (the closing bracket of a virtual
\* account) and the first token of the amount, in source order
LastAccountToken(posting) ==
  SourceOrder(AccountRefTokens(posting.account))[Cardinality(AccountRefTokens(posting.account))]

FirstAmountToken(posting) == SourceOrder(AmountTokens(posting.amount))[1]

\* the characters of the input between the account and the amount
AccountAmountGap(posting) ==
  Slice(input, span(LastAccountToken(posting))[2], span(FirstAmountToken(posting))[1])

(***************************************************************************)
(* C13: every Posting of a returned tree has no Amount, or the last token  *)
(* of its account ends with a hard space or the first token of its amount  *)
(* begins with one, and the input has a tab or two or more spaces between  *)
(* the two; so an amount after no space or one space is never the Amount   *)
(* of a Posting.                                                           *)
(***************************************************************************)
C13_HardSpaceDelimiter ==
  pc = "done" =>
    \A i \in 1..Len(AllPostings(children)) :
      AllPostings(children)[i].amount.type # "none" =>
        /\ \/ endsWithHardSpace(LastAccountToken(AllPostings(children)[i]))
           \/ beginsWithHardSpace(FirstAmountToken(AllPostings(children)[i]))
        /\ isHardSpace(AccountAmountGap(AllPostings(children)[i]))

\* a posting on a virtual account with an amount
C13_Witness ==
  /\ pc = "done"
  /\ diagnostics = <<>>
  /\ Len(AllPostings(children)) = 1
  /\ AllPostings(children)[1].account.name.type = "surroundedBy"
  /\ AllPostings(children)[1].amount.type = "amount"
  /\ isHardSpace(AccountAmountGap(AllPostings(children)[1]))

(***************************************************************************)
(* Inputs whose first line is a transaction header with both flags: a      *)
(* date, a space, one of * and !, then the other one, after any number of  *)
(* spaces or after none.                                                   *)
(***************************************************************************)
FlagChars == {"*", "!"}

OtherFlagAt(k) ==
  /\ input[k] \in FlagChars \ {input[5]}
  /\ \A j \in 6..(k - 1) : input[j] = " "

TwoFlagHeader ==
  /\ Len(input) >= 6
  /\ SubSeq(input, 1, 4) = <<"1", "-", "1", " ">>
  /\ input[5] \in FlagChars
  /\ \E k \in 6..Len(input) : OtherFlagAt(k)

AdjacentFlags == TwoFlagHeader /\ OtherFlagAt(6)

\* the header at offset 0 was rejected: an UNEXPECTED_TOKEN diagnostic and no
\* Transaction child that starts there
HeaderRejected ==
  /\ \E i \in 1..Len(diagnostics) : diagnostics[i].code = "UNEXPECTED_TOKEN"
  /\ \A i \in 1..Len(children) :
       children[i].type = "transaction" => ChildSpan(children[i])[1] # 0

(***************************************************************************)
(* C14: a transaction header in which one of * and ! follows the other,    *)
(* with or without space between them, gives an UNEXPECTED_TOKEN           *)
(* diagnostic and no Transaction child.                                    *)
(***************************************************************************)
C14_OneFlagPerTransaction == (pc = "done" /\ TwoFlagHeader) => HeaderRejected

\* the same for the two flags written without space between them
C14_AdjacentFlagsRejected == (pc = "done" /\ AdjacentFlags) => HeaderRejected

(***************************************************************************)
(* The DateNodes of a tree: the date of every transaction and the date of  *)
(* its auxiliary date.                                                     *)
(***************************************************************************)
DateNodesOf(cs) ==
  Flatten([i \in 1..Len(TransactionsOf(cs)) |->
     <<TransactionsOf(cs)[i].date>> \o
     (IF TransactionsOf(cs)[i].auxDate.type = "none" THEN <<>>
      ELSE <<TransactionsOf(cs)[i].auxDate.date>>)])

IsIntegerToken(t) ==
  /\ t.type = "number"
  /\ t.text # <<>>
  /\ \A i \in 1..Len(t.text) : IsDigit(t.text[i])

IsSeparatorToken(t) == t.type \in {"slash", "hyphen"}

DateShape(ts) ==
  /\ Len(ts) \in {3, 5}
  /\ \A i \in 1..Len(ts) : IF i % 2 = 1 THEN IsIntegerToken(ts[i]) ELSE IsSeparatorToken(ts[i])
  /\ Len(ts) = 5 => ts[4].type = ts[2].type

(***************************************************************************)
(* C15: every DateNode of a returned tree, primary or auxiliary, holds 3   *)
(* or 5 tokens: integer, separator, integer and possibly separator,        *)
(* integer; each separator is / or -, the second one is of the kind of the *)
(* first, and every number is written with digits only.                    *)
(***************************************************************************)
C15_DateShape ==
  pc = "done" =>
    \A i \in 1..Len(DateNodesOf(children)) : DateShape(DateNodesOf(children)[i].raw.tokens)

\* a transaction with a five-token date and an auxiliary date
C15_Witness ==
  /\ pc = "done"
  /\ Len(DateNodesOf(children)) = 2
  /\ Len(DateNodesOf(children)[1].raw.tokens) = 3
  /\ Len(DateNodesOf(children)[2].raw.tokens) = 5
  /\ DateNodesOf(children)[2].raw.tokens[2].type = "slash"

(***************************************************************************)
(* Virtual accounts.  The first posting line of the inputs that begin with *)
(* a date line and an indented line starts at offset 5.                    *)
(***************************************************************************)
SurroundedAccounts(cs) ==
  SelectSeq([i \in 1..Len(AllPostings(cs)) |-> AllPostings(cs)[i].account],
            LAMBDA a : a.name.type = "surroundedBy")

BracketsMatch(n) ==
  /\ \/ n.open.type = "lparen" /\ n.open.text = <<"(">>
          /\ n.close.type = "rparen" /\ n.close.text = <<")">>
     \/ n.open.type = "lbracket" /\ n.open.text = <<"[">>
          /\ n.close.type = "rbracket" /\ n.close.text = <<"]">>
  /\ n.contents.type = "group"
  /\ n.contents.tokens # <<>>

FirstPostingOffset == Len(<<"1", "-", "1", "\n", " ">>)

\* the characters of the first posting line after its opening bracket
RestOfFirstPostingLine ==
  SubSeq(input, FirstPostingOffset + 2,
         CHOOSE e \in (FirstPostingOffset + 1)..Len(input) :
           /\ \A k \in (FirstPostingOffset + 2)..e : input[k] # "\n"
           /\ e < Len(input) => input[e + 1] = "\n")

OpensWith(open) ==
  /\ Len(input) > FirstPostingOffset
  /\ SubSeq(input, 1, FirstPostingOffset + 1) = <<"1", "-", "1", "\n", " ", open>>

UnclosedBy(open, close) ==
  /\ OpensWith(open)
  /\ \A k \in 1..Len(RestOfFirstPostingLine) : RestOfFirstPostingLine[k] # close

NamesExpected(kind) ==
  \E i \in 1..Len(diagnostics) :
    /\ diagnostics[i].code \in {"UNEXPECTED_TOKEN", "UNEXPECTED_EOF"}
    /\ kind \in diagnostics[i].expected

NoFirstPosting ==
  \A i \in 1..Len(AllPostings(children)) :
    \A t \in PostingTokens(AllPostings(children)[i]) : t.offset # FirstPostingOffset

(***************************************************************************)
(* C16: in every returned tree a bracketed account has ( with ) or [ with  *)
(* ] around a non-empty group; a posting line whose opening bracket has no *)
(* matching closing bracket after it on the line gives a diagnostic that   *)
(* expects that closing bracket, and no Posting.                           *)
(***************************************************************************)
C16_VirtualBracketsMatch ==
  pc = "done" =>
    /\ \A i \in 1..Len(SurroundedAccounts(children)) :
         BracketsMatch(SurroundedAccounts(children)[i].name)
    /\ UnclosedBy("(", ")") => (NamesExpected("rparen") /\ NoFirstPosting)
    /\ UnclosedBy("[", "]") => (NamesExpected("rbracket") /\ NoFirstPosting)

\* a posting on a balanced virtual account [a]
C16_Witness ==
  /\ pc = "done"
  /\ OpensWith("[")
  /\ Len(SurroundedAccounts(children)) = 1
  /\ SurroundedAccounts(children)[1].name.close.type = "rbracket"

(***************************************************************************)
(* Blank inputs: the empty input and the runs of spaces and tabs.          *)
(***************************************************************************)
IsBlank(s) == \A i \in 1..Len(s) : s[i] \in {" ", "\t"}

(***************************************************************************)
(* C17: for a blank input parse() returns a File without children and      *)
(* without diagnostics; its lexer has returned no token, and the one token *)
(* it produced is the eof token, whose leading whitespace is the whole     *)
(* input.                                                                  *)
(***************************************************************************)
C17_BlankInputs ==
  (pc = "done" /\ IsBlank(input)) =>
    /\ children = <<>>
    /\ diagnostics = <<>>
    /\ lexer.count = 0
    /\ lexer.lookbehind = NoTok
    /\ lexer.lookahead.type = "eof"
    /\ lexer.lookahead.leadingSpace = input
    /\ outerText(lexer.lookahead) = input
    /\ lexer.index > Len(input)

\* parse() returned for a run of spaces and tabs
C17_Witness ==
  /\ pc = "done"
  /\ IsBlank(input)
  /\ Len(input) >= 3
  /\ \E i \in 1..Len(input) : input[i] = "\t"
  /\ \E i \in 1..Len(input) : input[i] = " "

(***************************************************************************)
(* Comment blocks.  The tokens of the input are those next() returns up to *)
(* the eof token; a block opens with the identifier comment or test at the *)
(* start of a line, followed by the end of the line.                       *)
(***************************************************************************)
RECURSIVE TokensFrom(_)
TokensFrom(lx) ==
  LET r == LexerNext(lx)
  IN  IF r.lx.thrown THEN <<>>
      ELSE IF r.tok.type = "eof" THEN <<r.tok>>
      ELSE <<r.tok>> \o TokensFrom(r.lx)

IsBlockName(t) == t.type = "identifier" /\ t.text \in {CommentWord, TestWord}

\* the token at position k opens a block that no "end <name>" pair follows
Unterminated(ts, k) ==
  /\ k < Len(ts)
  /\ IsBlockName(ts[k])
  /\ ts[k + 1].type \in {"newline", "eof"}
  /\ \A j \in (k + 1)..(Len(ts) - 1) :
       ~(/\ ts[j].type = "identifier" /\ ts[j].text = EndWord
         /\ ts[j + 1].type = "identifier" /\ ts[j + 1].text = ts[k].text)

\* the last iteration of File.parse began at a block that is not terminated
UnterminatedBlock ==
  /\ IsBlockName(before.next)
  /\ ~before.indented
  /\ \E k \in 1..Len(TokensFrom(NewLexer(input))) :
       /\ TokensFrom(NewLexer(input))[k] = before.next
       /\ Unterminated(TokensFrom(NewLexer(input)), k)

CommentDirectivesOf(cs) == SelectSeq(cs, LAMBDA c : c.type = "commentDirective")

(***************************************************************************)
(* C18: when parse() meets, at the start of a line, a comment or test      *)
(* block that no "end <same name>" follows ("end <other name>" included),  *)
(* the iteration adds exactly one diagnostic, an UNEXPECTED_EOF, adds no   *)
(* child, keeps the children parsed before, and leaves the lexer at the    *)
(* end of the input, so that no further diagnostic follows.                *)
(***************************************************************************)
C18_UnterminatedCommentBlock ==
  (pc \in {"parse", "done"} /\ UnterminatedBlock) =>
    /\ Len(diagnostics) = Len(before.diagnostics) + 1
    /\ SubSeq(diagnostics, 1, Len(before.diagnostics)) = before.diagnostics
    /\ diagnostics[Len(diagnostics)].code = "UNEXPECTED_EOF"
    /\ children = before.children
    /\ \A i \in 1..Len(CommentDirectivesOf(children)) :
         CommentDirectivesOf(children)[i].startName # before.next
    /\ ~LexerHasNext(lexer)

\* parse() returned for a comment block followed by "end test" only, after
\* one directive that stays in the tree
C18_Witness ==
  /\ pc = "done"
  /\ UnterminatedBlock
  /\ before.next.text = CommentWord
  /\ Len(children) = 1
  /\ \E k \in 1..(Len(input) - 7) : SubSeq(input, k, k + 7) = EndWord \o <<" ">> \o TestWord

(***************************************************************************)
(* The eof token.  A real token's text ends at its offset plus the length  *)
(* of its text (offset is where moo found the text).                       *)
(***************************************************************************)
RealTokens(ts) == SelectSeq(ts, LAMBDA t : t.type # "eof")

EndOfLastRealToken(ts) ==
  IF RealTokens(ts) = <<>> THEN 0
  ELSE RealTokens(ts)[Len(RealTokens(ts))].offset
         + innerLength(RealTokens(ts)[Len(RealTokens(ts))])

(***************************************************************************)
(* C19: the eof token that next() returns once the input is exhausted has  *)
(* the offset at which the last real token of the input ends, and 0 for an *)
(* input without real tokens.                                              *)
(***************************************************************************)
C19_EofOffset ==
  pc = "iterdone" => out[Len(out)].offset = EndOfLastRealToken(out)

(***************************************************************************)
(* The lexer under calls of peek(), hasNext() and next() in any order.     *)
(* lexer receives every call and out holds the tokens its next() returned; *)
(* before holds a second lexer on the same input that receives the next()  *)
(* calls only (lx, with the tokens it returned in out), the last call made *)
(* (op), and what peek() and hasNext() returned since the next() before    *)
(* the last one (peeked, has).  next() is called until it has returned     *)
(* MaxEofCalls eof tokens.                                                 *)
(***************************************************************************)
PeekInputs == SeqsUpTo(LexChars, MaxPeekLen)

NoCalls ==
  [lx |-> NewLexer(input), out |-> <<>>, op |-> "none", peeked |-> NoTok, has |-> "none"]

InitPeek ==
  /\ input \in PeekInputs
  /\ lexer = NewLexer(input)
  /\ out = <<>>
  /\ pc = "calls"
  /\ children = <<>>
  /\ diagnostics = <<>>
  /\ accounts = <<>>
  /\ payees = <<>>
  /\ stuck = FALSE
  /\ before = NoCalls

EofCalls == Len(SelectSeq(out, LAMBDA t : t.type = "eof"))

\* what peek() and hasNext() returned is forgotten once a next() has followed
SinceLastNext(field, none) == IF before.op = "next" THEN none ELSE before[field]

PeekCall ==
  /\ pc = "calls"
  /\ \E lx \in {LexerPeek(lexer)} :
       /\ ~lx.thrown
       /\ lexer' = lx
       /\ before' = [before EXCEPT !.op = "peek", !.peeked = lx.lookahead,
                                   !.has = SinceLastNext("has", "none")]
  /\ UNCHANGED <<input, out, pc, children, diagnostics, accounts, payees, stuck>>

HasNextCall ==
  /\ pc = "calls"
  /\ \E lx \in {LexerPeek(lexer)} :
       /\ ~lx.thrown
       /\ lexer' = lx
       /\ before' = [before EXCEPT !.op = "hasNext",
                                   !.peeked = SinceLastNext("peeked", NoTok),
                                   !.has = IF lx.lookahead.type # "eof" THEN "true" ELSE "false"]
  /\ UNCHANGED <<input, out, pc, children, diagnostics, accounts, payees, stuck>>

NextCall ==
  /\ pc = "calls"
  /\ EofCalls < MaxEofCalls
  /\ \E r \in {LexerNext(lexer)} :
       \E s \in {LexerNext(before.lx)} :
         /\ ~r.lx.thrown
         /\ lexer' = r.lx
         /\ out' = Append(out, r.tok)
         /\ before' = [lx |-> s.lx,
                       out |-> IF s.lx.thrown THEN before.out ELSE Append(before.out, s.tok),
                       op |-> "next",
                       peeked |-> SinceLastNext("peeked", NoTok),
                       has |-> SinceLastNext("has", "none")]
  /\ UNCHANGED <<input, pc, children, diagnostics, accounts, payees, stuck>>

\* moo throws in the call made: peek() and hasNext() read the token that the
\* next() would read
CallThrows ==
  /\ pc = "calls"
  /\ LexerPeek(lexer).thrown
  /\ pc' = "thrown"
  /\ UNCHANGED <<input, lexer, out, children, diagnostics, accounts, payees, stuck, before>>

NextPeek ==
  \/ PeekCall
  \/ HasNextCall
  \/ NextCall
  \/ CallThrows

SpecPeek == InitPeek /\ [][NextPeek]_vars

(***************************************************************************)
(* C20: whatever peek() and hasNext() calls are made among the next()      *)
(* calls, next() returns the tokens it returns when none is made; the      *)
(* token a peek() returned is the token the following next() returns, and  *)
(* hasNext() returned true exactly if that token is not the eof token.     *)
(***************************************************************************)
C20_LookaheadNonConsuming ==
  /\ out = before.out
  /\ (before.op = "next" /\ before.peeked # NoTok) => out[Len(out)] = before.peeked
  /\ (before.op = "next" /\ before.has # "none") =>
       (before.has = "true" <=> out[Len(out)].type # "eof")
  /\ pc = "thrown" => LexerNext(before.lx).lx.thrown

\* the second next() returned a real token that a peek() and a hasNext() had
\* shown before it
C20_Witness ==
  /\ before.op = "next"
  /\ before.peeked # NoTok
  /\ before.has = "true"
  /\ Len(out) = 2
  /\ out[2] = before.peeked

(***************************************************************************)
(* Whitespace attachment.  The text of a real token starts at its offset;  *)
(* the characters between the end of the text of one token and the start   *)
(* of the text of the next are the whitespace run between the two.         *)
(***************************************************************************)
TextEnd(t) == t.offset + innerLength(t)

RunBetween(t, u) == Slice(input, TextEnd(t), u.offset)

(***************************************************************************)
(* C21: no token the lexer returns is a ws token; the whitespace between   *)
(* two real tokens is the trailing whitespace of the first and the second  *)
(* has no leading whitespace; only the first token returned has leading    *)
(* whitespace, and an eof token has it only when it is that first token.   *)
(***************************************************************************)
C21_WhitespaceAttachment ==
  /\ \A i \in 1..Len(out) : out[i].type # "ws"
  /\ \A i \in 1..(Len(out) - 1) :
       /\ out[i + 1].leadingSpace = <<>>
       /\ out[i + 1].type # "eof" =>
            /\ RunBetween(out[i], out[i + 1]) = out[i].trailingSpace
            /\ IsBlank(out[i].trailingSpace)
       /\ out[i + 1].type = "eof" =>
            Slice(input, TextEnd(out[i]), Len(input)) = out[i].trailingSpace
  /\ \A i \in 1..Len(out) :
       (out[i].type = "eof" /\ out[i].leadingSpace # <<>>) =>
          (i = 1 /\ IsBlank(input) /\ out[i].leadingSpace = input)

\* three tokens with whitespace before the first, between the first two and
\* after the last
C21_Witness ==
  /\ pc = "iterdone"
  /\ Len(out) = 3
  /\ out[1].leadingSpace # <<>>
  /\ out[1].trailingSpace # <<>>
  /\ out[2].type # "eof"
  /\ out[2].trailingSpace = <<>>

(***************************************************************************)
(* Result (result.ts).  A Result holds value and error, both null at       *)
(* first; what a step function returns is either a Result or a raw value,  *)
(* written [js |-> "raw", v |-> ...].                                      *)
(***************************************************************************)
ResultOk(value) == [js |-> "Result", value |-> value, error |-> "null"]

\* an err that builds a successful Result holding the error
ResultErrAsOk(error) == ResultOk(error)

ResultErr(error) == [js |-> "Result", value |-> "null", error |-> error]

Raw(v) == [js |-> "raw", v |-> v]

ResultUnit(val) == IF val.js = "Result" THEN val ELSE ResultOk(val.v)

ResultIsOk(r) == r.error = "null"

ResultIsErr(r) == r.value = "null"

(***************************************************************************)
(* Result.all(...fns).  input holds the step functions, each of which      *)
(* consumes one token when it is called: "raw" returns the value val,      *)
(* "ok" returns Result.ok(val), "err" returns Result.err(val) and          *)
(* "rawLast" returns its last argument (undefined without arguments).      *)
(* children is the array values, out the arguments of the calls made so    *)
(* far, before the Result returned.                                        *)
(***************************************************************************)
StepValues == {"undefined", "a", "b"}

StepFns ==
  {[kind |-> k, val |-> v] : k \in {"raw", "ok", "err"}, v \in StepValues}
    \cup {[kind |-> "rawLast", val |-> "undefined"]}

CallFn(fn, args) ==
  CASE fn.kind = "raw" -> Raw(fn.val)
    [] fn.kind = "ok" -> ResultOk(fn.val)
    [] fn.kind = "err" -> ResultErr(fn.val)
    [] fn.kind = "rawLast" -> Raw(IF args = <<>> THEN "undefined" ELSE args[Len(args)])

NoResult == [js |-> "none"]

InitAll ==
  /\ input \in SeqsUpTo(StepFns, MaxSteps)
  /\ lexer = NewLexer(<<>>)
  /\ out = <<>>
  /\ pc = "loop"
  /\ children = <<>>
  /\ diagnostics = <<>>
  /\ accounts = <<>>
  /\ payees = <<>>
  /\ stuck = FALSE
  /\ before = NoResult

\* one iteration of the for loop whose step succeeds
AllPush ==
  /\ pc = "loop"
  /\ Len(out) < Len(input)
  /\ \E result \in {ResultUnit(CallFn(input[Len(out) + 1], children))} :
       /\ ResultIsOk(result)
       /\ ~ResultIsErr(result)
       /\ children' = Append(children, result.value)
  /\ out' = Append(out, children)
  /\ UNCHANGED <<input, lexer, pc, diagnostics, accounts, payees, stuck, before>>

\* the iteration whose step fails: all() returns the step's Result
AllShortCircuit ==
  /\ pc = "loop"
  /\ Len(out) < Len(input)
  /\ \E result \in {ResultUnit(CallFn(input[Len(out) + 1], children))} :
       /\ ~ResultIsOk(result)
       /\ before' = result
  /\ out' = Append(out, children)
  /\ pc' = "returned"
  /\ UNCHANGED <<input, lexer, children, diagnostics, accounts, payees, stuck>>

\* the end of the loop: return Result.ok(values)
AllReturn ==
  /\ pc = "loop"
  /\ Len(out) = Len(input)
  /\ before' = ResultOk(children)
  /\ pc' = "returned"
  /\ UNCHANGED <<input, lexer, out, children, diagnostics, accounts, payees, stuck>>

NextAll ==
  \/ AllPush
  \/ AllShortCircuit
  \/ AllReturn

SpecAll == InitAll /\ [][NextAll]_vars

\* the value step k is to produce, from the steps alone
RECURSIVE StepValue(_)
StepValue(k) ==
  IF input[k].kind = "rawLast"
  THEN IF k = 1 THEN "undefined" ELSE StepValue(k - 1)
  ELSE input[k].val

Fails(k) == input[k].kind = "err"

FirstFailure == CHOOSE k \in 1..Len(input) : Fails(k) /\ \A j \in 1..(k - 1) : ~Fails(j)

Tokens == TokensFrom(NewLexer(input))

\* the index in ts of the first token from index k on whose type is in kinds
\* (the eof token ends every stream)
RECURSIVE FirstOf(_, _, _)
FirstOf(ts, k, kinds) ==
  IF k >= Len(ts) \/ ts[k].type \in kinds THEN k ELSE FirstOf(ts, k + 1, kinds)

IndexOf(ts, t) == CHOOSE k \in 1..Len(ts) : ts[k] = t

LineEnds == {"newline", "eof"}

\* the last iteration began at the keyword alias at the start of a line
AtAliasLine ==
  /\ before.next.type = "identifier"
  /\ before.next.text = AliasWord
  /\ ~before.indented
  /\ \E k \in 1..Len(Tokens) : Tokens[k] = before.next

AliasEqIndex == FirstOf(Tokens, IndexOf(Tokens, before.next) + 1, LineEnds \cup {"equal"})

AliasNameRun == SubSeq(Tokens, IndexOf(Tokens, before.next) + 1, AliasEqIndex - 1)

AliasValueRun ==
  IF Tokens[AliasEqIndex].type # "equal" THEN <<>>
  ELSE SubSeq(Tokens, AliasEqIndex + 1, FirstOf(Tokens, AliasEqIndex + 1, LineEnds) - 1)

AliasWellFormed ==
  /\ AliasNameRun # <<>>
  /\ Tokens[AliasEqIndex].type = "equal"
  /\ AliasValueRun # <<>>

LastChild == children[Len(children)]

(***************************************************************************)
(* C23: an alias line with a non-empty name before its first = and a       *)
(* non-empty value after it gives, without a diagnostic, one Alias whose   *)
(* name is the tokens between the keyword and the first = and whose value  *)
(* is every token after that = up to the end of the line, later = tokens   *)
(* included; an alias line with an empty name or an empty value gives one  *)
(* diagnostic and no Alias.                                                *)
(***************************************************************************)
C23_AliasSplit ==
  (pc \in {"parse", "done"} /\ AtAliasLine) =>
    IF AliasWellFormed
    THEN /\ diagnostics = before.diagnostics
         /\ children = Append(before.children, LastChild)
         /\ LastChild.type = "alias"
         /\ LastChild.alias = before.next
         /\ LastChild.name = Group(AliasNameRun)
         /\ LastChild.eq = Tokens[AliasEqIndex]
         /\ LastChild.value = Group(AliasValueRun)
         /\ \A i \in 1..Len(LastChild.name.tokens) : LastChild.name.tokens[i].type # "equal"
    ELSE /\ Len(diagnostics) = Len(before.diagnostics) + 1
         /\ children = before.children

\* alias a=1=a: the value holds the second =
C23_Witness ==
  /\ pc = "done"
  /\ AtAliasLine
  /\ AliasWellFormed
  /\ diagnostics = <<>>
  /\ Len(children) = 1
  /\ GroupInnerText(children[1].name) = <<"a">>
  /\ GroupInnerText(children[1].value) = <<"1", "=", "a">>

(***************************************************************************)
(* Comment-block bodies.  The last iteration of File.parse began at a      *)
(* block name and added a CommentDirective; the opening line ends with the *)
(* newline token that follows the name.                                    *)
(***************************************************************************)
BlockParsed ==
  /\ IsBlockName(before.next)
  /\ ~before.indented
  /\ Len(children) = Len(before.children) + 1
  /\ LastChild.type = "commentDirective"
  /\ LastChild.startName = before.next

OpeningNewline == Tokens[IndexOf(Tokens, before.next) + 1]

\* the source text between the newline of the opening line and the text of
\* the terminating end token
SourceBody == Slice(input, TextEnd(OpeningNewline), LastChild.end.offset)

(***************************************************************************)
(* C24: in every CommentDirective end is the identifier end, endName has   *)
(* the text of startName, and body is the source text between the newline  *)
(* that ends the opening line and the first character of the terminating   *)
(* end token, whether that text is empty or not.                           *)
(***************************************************************************)
C24_CommentBlockBody ==
  (pc \in {"parse", "done"} /\ BlockParsed) =>
    /\ LastChild.end.type = "identifier"
    /\ LastChild.end.text = EndWord
    /\ LastChild.endName.type = "identifier"
    /\ LastChild.endName.text = LastChild.startName.text
    /\ LastChild.body = SourceBody

(***************************************************************************)
(* Amounts.  The first posting line of the amount scenarios holds the      *)
(* account a, two spaces and the amount; a commodity stands on both sides  *)
(* of the number when an identifier is next to each side of the first      *)
(* digit of the line.                                                      *)
(***************************************************************************)
AmountsOf(cs) ==
  SelectSeq([i \in 1..Len(AllPostings(cs)) |-> AllPostings(cs)[i].amount],
            LAMBDA a : a.type # "none")

AmountShape(a) ==
  /\ a.amount.type = "number"
  /\ a.minus.type \in {"none", "hyphen"}
  /\ ~(a.preCommodity.type # "none" /\ a.postCommodity.type # "none")
  /\ a.preCommodity.type # "none" =>
       /\ a.preCommodity.tokens # <<>>
       /\ \A i \in 1..Len(a.preCommodity.tokens) :
            a.preCommodity.tokens[i].offset < a.amount.offset
  /\ a.postCommodity.type # "none" =>
       /\ a.postCommodity.tokens # <<>>
       /\ \A i \in 1..Len(a.postCommodity.tokens) :
            a.postCommodity.tokens[i].offset > a.amount.offset

AmountOffset == Len(<<"1", "-", "1", "\n", " ", "a", " ", " ">>)

\* the tokens of the first posting line from the amount on
AmountLineTokens ==
  SelectSeq(SubSeq(Tokens, 1, FirstOf(Tokens, 5, LineEnds) - 1),
            LAMBDA t : t.offset >= AmountOffset)

\* commodity, number, commodity
CommodityOnBothSides ==
  /\ IsPrefix(<<"1", "-", "1", "\n", " ", "a", " ", " ">>, input)
  /\ \E k \in 2..(Len(AmountLineTokens) - 1) :
       /\ AmountLineTokens[k].type = "number"
       /\ \A j \in 1..(k - 1) : AmountLineTokens[j].type = "identifier"
       /\ AmountLineTokens[k + 1].type = "identifier"

(***************************************************************************)
(* C25: every Amount of a returned tree has a number token, at most one    *)
(* minus token and at most one commodity, in preCommodity when it stands   *)
(* before the number and in postCommodity when it stands after it; an      *)
(* amount written with a commodity on both sides of its number gives a     *)
(* diagnostic and no posting.                                              *)
(***************************************************************************)
C25_AmountShape ==
  pc = "done" =>
    /\ \A i \in 1..Len(AmountsOf(children)) : AmountShape(AmountsOf(children)[i])
    /\ CommodityOnBothSides => (diagnostics # <<>> /\ NoFirstPosting)

\* an amount with a minus sign and a commodity before its number
C25_Witness ==
  /\ pc = "done"
  /\ diagnostics = <<>>
  /\ Len(AmountsOf(children)) = 1
  /\ AmountsOf(children)[1].preCommodity.type # "none"
  /\ AmountsOf(children)[1].minus.type = "hyphen"

(***************************************************************************)
(* Header lines.  The last iteration of File.parse began at the date of a  *)
(* transaction header; the header's tokens run up to the end of the line,  *)
(* and a comment token, if the line has one, is its last token.            *)
(***************************************************************************)
AtHeaderLine ==
  /\ before.next.type = "number"
  /\ ~before.indented
  /\ \E k \in 1..(Len(Tokens) - 2) :
       /\ Tokens[k] = before.next
       /\ IsSeparatorToken(Tokens[k + 1])
       /\ Tokens[k + 2].type = "number"

HeaderEndIndex == FirstOf(Tokens, IndexOf(Tokens, before.next), LineEnds)

HeaderCommentIndex == HeaderEndIndex - 1

HasHeaderComment ==
  /\ HeaderCommentIndex > IndexOf(Tokens, before.next)
  /\ Tokens[HeaderCommentIndex].type = "comment"

HeaderParsed ==
  /\ Len(children) = Len(before.children) + 1
  /\ LastChild.type = "transaction"
  /\ LastChild.date.raw.tokens[1] = before.next

InPayee(t) ==
  /\ LastChild.payee.type # "none"
  /\ \E i \in 1..Len(LastChild.payee.group.tokens) : LastChild.payee.group.tokens[i] = t

InComments(t) ==
  \E i \in 1..Len(LastChild.comments) : LastChild.comments[i].comment = t

\* the tokens from the first token of the payee to the end of the header,
\* without the comment that a hard space precedes
PayeeRun ==
  SubSeq(Tokens, IndexOf(Tokens, LastChild.payee.group.tokens[1]),
         IF HasHeaderComment /\ endsWithHardSpace(Tokens[HeaderCommentIndex - 1])
              /\ Tokens[HeaderCommentIndex] # LastChild.payee.group.tokens[1]
         THEN HeaderCommentIndex - 1 ELSE HeaderEndIndex - 1)

(***************************************************************************)
(* C26: on a transaction header a comment token that one space separates   *)
(* from the text before it is part of the payee and the transaction has no *)
(* comment; a comment token that a hard space precedes is not part of the  *)
(* payee and is the Comment of the transaction; the payee holds every      *)
(* other token up to the end of the line, hard-space separated runs        *)
(* included, with the whitespace between them.                             *)
(***************************************************************************)
C26_PayeeVersusComment ==
  (pc \in {"parse", "done"} /\ AtHeaderLine) =>
    /\ (HasHeaderComment /\ Tokens[HeaderCommentIndex - 1].trailingSpace = <<" ">>
          /\ HeaderParsed) =>
         /\ InPayee(Tokens[HeaderCommentIndex])
         /\ ~InComments(Tokens[HeaderCommentIndex])
    /\ (HasHeaderComment /\ endsWithHardSpace(Tokens[HeaderCommentIndex - 1])) =>
         /\ HeaderParsed
         /\ ~InPayee(Tokens[HeaderCommentIndex])
         /\ InComments(Tokens[HeaderCommentIndex])
    /\ (HeaderParsed /\ LastChild.payee.type # "none") =>
         /\ LastChild.payee.group.tokens = PayeeRun
         /\ GroupOuterText(LastChild.payee.group) = TokensText(PayeeRun)

(***************************************************************************)
(* Transaction blocks.  The block of the header that the last iteration    *)
(* began at is the run of indented, non-empty lines that follows it.       *)
(***************************************************************************)
IndentedAt(i) ==
  /\ Tokens[i - 1].type = "newline"
  /\ Tokens[i].type \notin LineEnds
  /\ (endsWithSpace(Tokens[i - 1]) \/ beginsWithSpace(Tokens[i]))

BlockLineStarts ==
  {i \in (HeaderEndIndex + 1)..Len(Tokens) :
     /\ Tokens[i - 1].type = "newline"
     /\ \A j \in (HeaderEndIndex + 1)..i : Tokens[j - 1].type = "newline" => IndentedAt(j)}

CommentLines == {i \in BlockLineStarts : Tokens[i].type = "comment"}
PostingLines == {i \in BlockLineStarts : Tokens[i].type # "comment"}

\* the header is a date alone, and every posting line is one identifier
PlainBlock ==
  /\ Tokens[HeaderEndIndex].type = "newline"
  /\ HeaderEndIndex = IndexOf(Tokens, before.next) + Len(<<"1", "-", "1">>)
  /\ \A i \in PostingLines : Tokens[i].type = "identifier" /\ Tokens[i + 1].type \in LineEnds

PostingsAt(i) ==
  {k \in 1..Len(LastChild.postings) : Tokens[i] \in AccountRefTokens(LastChild.postings[k].account)}

PostingHolds(k, t) ==
  \E c \in 1..Len(LastChild.postings[k].comments) : LastChild.postings[k].comments[c].comment = t

PostingLinesBefore(i) == {j \in PostingLines : j < i}

MostRecentPostingLine(i) == CHOOSE j \in PostingLinesBefore(i) : \A l \in PostingLinesBefore(i) : l <= j

(***************************************************************************)
(* C27: a transaction whose block has indented comment lines is parsed     *)
(* without a diagnostic; every posting line of the block, the ones after a *)
(* comment line included, is a posting of the transaction, and every       *)
(* comment line is a Comment of the most recent posting, or of the         *)
(* transaction when no posting line precedes it.                           *)
(***************************************************************************)
C27_BlockComments ==
  (pc \in {"parse", "done"} /\ AtHeaderLine /\ PlainBlock /\ CommentLines # {}) =>
    /\ HeaderParsed
    /\ diagnostics = before.diagnostics
    /\ \A i \in PostingLines : PostingsAt(i) # {}
    /\ \A i \in CommentLines :
         IF PostingLinesBefore(i) = {} THEN InComments(Tokens[i])
         ELSE \E k \in PostingsAt(MostRecentPostingLine(i)) : PostingHolds(k, Tokens[i])

(***************************************************************************)
(* Span coverage.                                                          *)
(***************************************************************************)
SpanCovers(outer, inner) == outer[1] <= inner[1] /\ inner[2] <= outer[2]

PostingCovered(n) == \A t \in PostingTokens(n) : SpanCovers(PostingSpan(n), span(t))

ChildCovered(n) == \A t \in ChildTokens(n) : SpanCovers(ChildSpan(n), span(t))

(***************************************************************************)
(* C28: the span of every node of the tree covers the span of every token  *)
(* the node holds, directly, in its groups or in its child nodes: the span *)
(* of a Transaction covers its postings and comments, the span of a        *)
(* Posting its comments, the span of a Directive its argument and the span *)
(* of an Apply its args.                                                   *)
(***************************************************************************)
C28_SpanCoverage ==
  pc \in {"parse", "done"} =>
    \A i \in 1..Len(children) :
      /\ ChildCovered(children[i])
      /\ children[i].type = "transaction" =>
           \A k \in 1..Len(children[i].postings) : PostingCovered(children[i].postings[k])

(***************************************************************************)
(* Blank lines at top level.  The last iteration of File.parse met a       *)
(* newline token at an unindented line start.                              *)
(***************************************************************************)
AtBlankLine ==
  /\ pc = "parse"
  /\ before.next.type = "newline"
  /\ ~before.indented

LineAfterBlank == Tokens[IndexOf(Tokens, before.next) + 1]

UnindentedAfterBlank ==
  /\ LineAfterBlank.type # "eof"
  /\ ~endsWithSpace(before.next)
  /\ ~beginsWithSpace(LineAfterBlank)

(***************************************************************************)
(* C29: an iteration of File.parse that meets a newline token at an        *)
(* unindented line start consumes it, adds exactly one UNEXPECTED_TOKEN    *)
(* diagnostic, at that newline, and no child; when the line that follows   *)
(* is not indented, the next iteration starts at its first token, at a     *)
(* line start, so that the line is dispatched as a top-level item.         *)
(***************************************************************************)
C29_BlankLines ==
  AtBlankLine =>
    /\ children = before.children
    /\ Len(diagnostics) = Len(before.diagnostics) + 1
    /\ SubSeq(diagnostics, 1, Len(before.diagnostics)) = before.diagnostics
    /\ diagnostics[Len(diagnostics)].code = "UNEXPECTED_TOKEN"
    /\ diagnostics[Len(diagnostics)].span = span(before.next)
    /\ UnindentedAfterBlank =>
         /\ peek(CurP) = LineAfterBlank
         /\ previous(CurP) = before.next
         /\ ~nextIsIndented(CurP)

\* a blank line between two top-level items, the second of which is next
C29_Witness ==
  /\ AtBlankLine
  /\ UnindentedAfterBlank
  /\ Len(children) > 0
  /\ peek(CurP).type \in {"number", "identifier", "comment"}

(***************************************************************************)
(* The names the tables hold and the names the tree holds.                 *)
(***************************************************************************)
KeySet(table) == {table[i].key : i \in 1..Len(table)}

TreeAccountNames == {AccountDeclarations(children)[i].key : i \in 1..Len(AccountDeclarations(children))}

TreePayeeNames == {PayeeDeclarations(children)[i].key : i \in 1..Len(PayeeDeclarations(children))}

====
